---- MODULE Spec2Model ----
(***************************************************************************)
(* Model of the adaptive question-and-answer engine of alas-backend:       *)
(* app/qna/utils.py (catalog lookup, question selector, answer evaluator,  *)
(* progress updater) and the handlers of app/qna/routes.py that call it.   *)
(*                                                                         *)
(* The document store is three collections: questions (read only),         *)
(* user_answers (append only) and user_progress.  Every "await" on the     *)
(* store is one atomic step of a handler; other handlers may run between   *)
(* two steps.  Strings that the code transforms (answers) are sequences of *)
(* one-character strings; mastery levels are integers in units of          *)
(* 1/MasteryScale percent.  Timestamps are left out: nothing reads them.   *)
(*                                                                         *)
(* The account handlers of app/auth/routes.py and app/admin/routes.py work *)
(* on a fourth collection, users; the clock they read is now, in minutes.  *)
(***************************************************************************)
EXTENDS Integers, Sequences, FiniteSets, TLC

VARIABLES user_progress, user_answers, calls, users_collection, now

vars == <<user_progress, user_answers, calls, users_collection, now>>

\* what the account handlers work on; the quiz handlers leave it alone
accounts == <<users_collection, now>>

\* ---------------------------------------------------------------- bounds
MaxAnswers == 3
MasteryScale == 1000

\* two workers serve requests at the same time
Procs == {"w1", "w2"}
\* the user whose requests are followed, and another user of the service
Users == {"u1"}
OtherUser == "u2"

\* ------------------------------------------------------------ the catalog
\* has_type, has_difficulty, has_skills, has_points and has_explanation say
\* whether the document has the field
NoExplanations == [choice \in {} |-> ""]

Questions ==
  << [id |-> "q1", has_type |-> TRUE, type |-> "multiple_choice",
      has_difficulty |-> TRUE, difficulty |-> "easy", has_skills |-> TRUE,
      subject |-> "math", topic |-> "algebra", skills |-> <<"add">>,
      priority |-> 2, correct_answer |-> <<"A">>,
      has_points |-> TRUE, points |-> 5,
      explanations |-> (<<" ", "b">> :> "too broad"),
      has_explanation |-> FALSE, explanation |-> ""],
     [id |-> "q2", has_type |-> TRUE, type |-> "text",
      has_difficulty |-> TRUE, difficulty |-> "medium", has_skills |-> TRUE,
      subject |-> "math", topic |-> "algebra", skills |-> <<"add", "mul">>,
      priority |-> 1, correct_answer |-> <<"a", " ">>,
      has_points |-> FALSE, points |-> 0,
      explanations |-> NoExplanations,
      has_explanation |-> FALSE, explanation |-> ""],
     [id |-> "q3", has_type |-> TRUE, type |-> "text",
      has_difficulty |-> TRUE, difficulty |-> "hard", has_skills |-> TRUE,
      subject |-> "science", topic |-> "geometry", skills |-> <<"mul">>,
      priority |-> 3, correct_answer |-> <<"B">>,
      has_points |-> TRUE, points |-> 20,
      explanations |-> NoExplanations,
      has_explanation |-> TRUE, explanation |-> "see chapter 3"] >>

QuestionIds == {Questions[i].id : i \in 1..Len(Questions)}
\* a well-formed id that no catalog question has
AbsentId == "q9"
RequestIds == QuestionIds \cup {AbsentId}

Answers == { <<"A">>, <<" ", "b">> }
TimeTakenValues == {4}

\* ------------------------------------------------------- sequence helpers
Range(s) == {s[i] : i \in 1..Len(s)}

Contains(s, x) == \E i \in 1..Len(s) : s[i] = x

RECURSIVE SelectIdx(_, _, _)
\* the elements of s, in order, whose index is in keep
SelectIdx(s, keep, i) ==
  IF i > Len(s) THEN <<>>
  ELSE IF i \in keep THEN <<s[i]>> \o SelectIdx(s, keep, i + 1)
       ELSE SelectIdx(s, keep, i + 1)

Take(s, n) == IF n >= Len(s) THEN s ELSE SubSeq(s, 1, n)

\* ------------------------------------------------------------ str methods
LowerChar(c) ==
  CASE c = "A" -> "a"
    [] c = "B" -> "b"
    [] OTHER -> c

Lower(s) == [i \in 1..Len(s) |-> LowerChar(s[i])]

IsSpace(c) == c = " "

RECURSIVE LStrip(_)
LStrip(s) ==
  IF s = <<>> THEN <<>>
  ELSE IF IsSpace(Head(s)) THEN LStrip(Tail(s)) ELSE s

RECURSIVE RStrip(_)
RStrip(s) ==
  IF s = <<>> THEN <<>>
  ELSE IF IsSpace(s[Len(s)]) THEN RStrip(SubSeq(s, 1, Len(s) - 1)) ELSE s

\* a faulty strip: only the leading spaces are removed
StripLeftOnly(s) == LStrip(s)

\* str.strip()
Strip(s) == RStrip(LStrip(s))

\* Python's None, for an optional filter that was not given
None == "None"

\* -------------------------------------------------------- question catalog
\* db.questions.find_one({"_id": ObjectId(question_id)}): the position of the
\* question in the catalog, 0 when no question has that id
FindQuestion(question_id) ==
  IF \E i \in 1..Len(Questions) : Questions[i].id = question_id
  THEN CHOOSE i \in 1..Len(Questions) : Questions[i].id = question_id
  ELSE 0

\* ------------------------------------------------------- answer evaluator
DefaultPoints == 10

\* a faulty default: the points field is read without a default
PointsNoDefault(question) == question.points

Points(question) ==
  IF question.has_points THEN question.points ELSE DefaultPoints

\* question.get("type", "multiple_choice")
QuestionType(question) ==
  IF question.has_type THEN question.type ELSE "multiple_choice"

\* a faulty evaluator: a wrong choice always gets the generic feedback
EvaluateAnswerGenericFeedback(question, user_answer) ==
  IF QuestionType(question) = "multiple_choice"
  THEN IF user_answer = question.correct_answer
       THEN [is_correct |-> TRUE, feedback |-> "Correct!",
             score |-> IF question.has_points THEN question.points ELSE 10]
       ELSE [is_correct |-> FALSE, feedback |-> "Incorrect choice.",
             score |-> 0]
  ELSE IF QuestionType(question) = "text"
  THEN IF RStrip(LStrip(Lower(user_answer)))
            = RStrip(LStrip(Lower(question.correct_answer)))
       THEN [is_correct |-> TRUE, feedback |-> "Correct!",
             score |-> IF question.has_points THEN question.points ELSE 10]
       ELSE [is_correct |-> FALSE,
             feedback |-> IF question.has_explanation
                          THEN question.explanation
                          ELSE "Incorrect answer.",
             score |-> 0]
  ELSE [is_correct |-> FALSE, feedback |-> "Incorrect answer.", score |-> 0]

\* the checks of save_user_answer on the question's type
EvaluateAnswer(question, user_answer) ==
  IF QuestionType(question) = "multiple_choice"
  THEN IF user_answer = question.correct_answer
       THEN [is_correct |-> TRUE, feedback |-> "Correct!",
             score |-> Points(question)]
       ELSE [is_correct |-> FALSE,
             feedback |-> IF user_answer \in DOMAIN question.explanations
                          THEN question.explanations[user_answer]
                          ELSE "Incorrect choice.",
             score |-> 0]
  ELSE IF QuestionType(question) = "text"
  THEN IF Strip(Lower(user_answer)) = Strip(Lower(question.correct_answer))
       THEN [is_correct |-> TRUE, feedback |-> "Correct!",
             score |-> Points(question)]
       ELSE [is_correct |-> FALSE,
             feedback |-> IF question.has_explanation
                          THEN question.explanation
                          ELSE "Incorrect answer.",
             score |-> 0]
  ELSE [is_correct |-> FALSE, feedback |-> "Incorrect answer.", score |-> 0]

\* --------------------------------------------------------- progress store
\* the document both update_user_progress and get_user_progress build when
\* find_one returned nothing
DefaultProgress(user_id) ==
  [user_id |-> user_id,
   completed_questions |-> <<>>,
   attempted_questions |-> <<>>,
   correct_answers |-> 0,
   total_attempts |-> 0,
   skills |-> <<>>]

\* positions of the documents of a user, in insertion (natural) order
DocsOf(coll, user_id) == {i \in 1..Len(coll) : coll[i].user_id = user_id}

HasDoc(coll, user_id) == DocsOf(coll, user_id) # {}

FirstDoc(coll, user_id) ==
  CHOOSE i \in DocsOf(coll, user_id) : \A j \in DocsOf(coll, user_id) : i <= j

\* db.user_progress.find_one({"user_id": ...}); DefaultProgress stands for
\* the dict the caller builds at once when nothing was found
FindProgress(coll, user_id) ==
  IF HasDoc(coll, user_id) THEN coll[FirstDoc(coll, user_id)]
  ELSE DefaultProgress(user_id)

\* db.user_progress.insert_one(progress)
InsertProgress(coll, progress) == Append(coll, progress)

\* a faulty update_one: the copy is inserted as a new document every time
UpsertProgressAlwaysInserts(coll, user_id, progress) == Append(coll, progress)

\* db.user_progress.update_one({"user_id": ...}, {"$set": progress},
\* upsert=True): every field of the first matching document is overwritten
\* by the caller's copy; with no match the copy is inserted
UpsertProgress(coll, user_id, progress) ==
  IF HasDoc(coll, user_id)
  THEN [coll EXCEPT ![FirstDoc(coll, user_id)] = progress]
  ELSE Append(coll, progress)

\* ------------------------------------------------------- progress updater
SkillPos(skills, skill) ==
  IF \E i \in 1..Len(skills) : skills[i].skill = skill
  THEN CHOOSE i \in 1..Len(skills) : skills[i].skill = skill
  ELSE 0

\* mastery = (correct / attempts) * 100, in units of 1/MasteryScale
Accuracy(correct, attempts) == (correct * 100 * MasteryScale) \div attempts

\* a faulty blend: the new accuracy is added with weight 1
NewMasteryUnweighted(old_mastery, correct, attempts) ==
  (old_mastery * 9) \div 10 + Accuracy(correct, attempts)

\* new_mastery = old_mastery * 0.9 + mastery * (1 - 0.9)
NewMastery(old_mastery, correct, attempts) ==
  (old_mastery * 9 + Accuracy(correct, attempts)) \div 10

\* a faulty pass: attempts is counted only for a wrong answer
UpdateSkillAttemptsOnFailure(skills, skill, is_correct) ==
  LET known == IF SkillPos(skills, skill) = 0
               THEN Append(skills, [skill |-> skill, mastery_level |-> 0,
                                    attempts |-> 0, correct |-> 0])
               ELSE skills
      i == SkillPos(known, skill)
      attempts == known[i].attempts + (IF is_correct THEN 0 ELSE 1)
      correct == known[i].correct + (IF is_correct THEN 1 ELSE 0)
      mastery == IF attempts > 0
                 THEN NewMastery(known[i].mastery_level, correct, attempts)
                 ELSE known[i].mastery_level
  IN [known EXCEPT ![i] = [skill |-> skill, mastery_level |-> mastery,
                           attempts |-> attempts, correct |-> correct]]

\* one pass of the loop "for skill in skills" of update_user_progress
UpdateSkill(skills, skill, is_correct) ==
  LET known == IF SkillPos(skills, skill) = 0
               THEN Append(skills, [skill |-> skill, mastery_level |-> 0,
                                    attempts |-> 0, correct |-> 0])
               ELSE skills
      i == SkillPos(known, skill)
      attempts == known[i].attempts + 1
      correct == known[i].correct + (IF is_correct THEN 1 ELSE 0)
      mastery == IF attempts > 0
                 THEN NewMastery(known[i].mastery_level, correct, attempts)
                 ELSE known[i].mastery_level
  IN [known EXCEPT ![i] = [skill |-> skill, mastery_level |-> mastery,
                           attempts |-> attempts, correct |-> correct]]

\* a faulty loop: only the first tag of the question is updated
UpdateSkillsFirstTagOnly(skills, tags, is_correct) ==
  IF tags = <<>> THEN skills ELSE UpdateSkill(skills, Head(tags), is_correct)

RECURSIVE UpdateSkills(_, _, _)
\* the loop "for skill in skills" over the tags of the question
UpdateSkills(skills, tags, is_correct) ==
  IF tags = <<>> THEN skills
  ELSE UpdateSkills(UpdateSkill(skills, Head(tags), is_correct),
                    Tail(tags), is_correct)

\* a faulty guard: the id is appended whether it is in the list or not
AppendAlways(s, x) == Append(s, x)

\* "if question_id not in ...: ....append(question_id)"
AppendIfAbsent(s, x) == IF Contains(s, x) THEN s ELSE Append(s, x)

\* a faulty updater: the question is recorded as attempted only in the
\* branch of a wrong answer
ApplyAnswerAttemptedOnFailure(progress, question_id, question, is_correct) ==
  [user_id |-> progress.user_id,
   total_attempts |-> progress.total_attempts + 1,
   attempted_questions |->
     IF is_correct THEN progress.attempted_questions
     ELSE AppendIfAbsent(progress.attempted_questions, question_id),
   correct_answers |->
     IF is_correct THEN progress.correct_answers + 1
     ELSE progress.correct_answers,
   completed_questions |->
     IF is_correct
     THEN AppendIfAbsent(progress.completed_questions, question_id)
     ELSE progress.completed_questions,
   skills |-> UpdateSkills(progress.skills, question.skills, is_correct)]

\* the changes update_user_progress makes to its copy of the document
\* between find_one and update_one
ApplyAnswer(progress, question_id, question, is_correct) ==
  [user_id |-> progress.user_id,
   total_attempts |-> progress.total_attempts + 1,
   attempted_questions |->
     AppendIfAbsent(progress.attempted_questions, question_id),
   correct_answers |->
     IF is_correct THEN progress.correct_answers + 1
     ELSE progress.correct_answers,
   completed_questions |->
     IF is_correct
     THEN AppendIfAbsent(progress.completed_questions, question_id)
     ELSE progress.completed_questions,
   skills |-> UpdateSkills(progress.skills, question.skills, is_correct)]

\* ------------------------------------------------------ question selector
\* the filter document of get_next_questions: a field equal to None is a key
\* the query does not have; nin is the "$nin" list under "_id"
BuildQuery(difficulty, subject, topic, progress) ==
  [difficulty |-> difficulty,
   subject |-> subject,
   topic |-> topic,
   nin |-> Range(progress.completed_questions),
   skills |-> None]

\* sorted(user_progress["skills"].items(), key=mastery_level)[0][0]: the
\* first skill, in the order the skills were added, of lowest mastery
WeakestSkill(skills) ==
  LET i == CHOOSE k \in 1..Len(skills) :
             /\ \A j \in 1..Len(skills) :
                  skills[k].mastery_level <= skills[j].mastery_level
             /\ \A j \in 1..(k - 1) :
                  skills[j].mastery_level > skills[k].mastery_level
  IN skills[i].skill

\* a faulty selector: the query is never narrowed by a skill
WithoutWeakSkill(query, progress) == query

\* query["skills"] = weakest_skill, when the user has skill data
WithWeakSkill(query, progress) ==
  IF progress.skills # <<>>
  THEN [query EXCEPT !.skills = WeakestSkill(progress.skills)]
  ELSE query

\* whether the store matches a question against a filter document
Matches(question, query) ==
  /\ query.difficulty # None => question.difficulty = query.difficulty
  /\ query.subject # None => question.subject = query.subject
  /\ query.topic # None => question.topic = query.topic
  /\ query.skills # None => Contains(question.skills, query.skills)
  /\ question.id \notin query.nin

\* db.questions.find(query): the matching questions in catalog order
Find(query) ==
  SelectIdx(Questions,
            {i \in 1..Len(Questions) : Matches(Questions[i], query)}, 1)

RECURSIVE SortByPriority(_)
\* .sort([("priority", 1)]): ascending, ties in catalog order
SortByPriority(qs) ==
  IF qs = <<>> THEN <<>>
  ELSE LET m == CHOOSE i \in 1..Len(qs) :
                  /\ \A j \in 1..Len(qs) : qs[i].priority <= qs[j].priority
                  /\ \A j \in 1..(i - 1) : qs[j].priority > qs[i].priority
       IN <<qs[m]>> \o SortByPriority(SelectIdx(qs, (1..Len(qs)) \ {m}, 1))

\* stage 1: find(query).sort(sort_criteria).limit(count)
Stage1(query, count) == Take(SortByPriority(Find(query)), count)

\* a faulty stage 2: the second query is limited to count again
Stage2FullLimit(questions, query, count) ==
  IF Len(questions) < count /\ query.topic # None
  THEN questions \o Take(SortByPriority(Find([query EXCEPT !.topic = None])),
                         count)
  ELSE questions

\* stage 2: with too few questions and a topic in the query, the topic is
\* deleted from the query and the same query is run again for the rest
Stage2(questions, query, count) ==
  IF Len(questions) < count /\ query.topic # None
  THEN questions \o Take(SortByPriority(Find([query EXCEPT !.topic = None])),
                         count - Len(questions))
  ELSE questions

\* a faulty stage 3: nothing is added
Stage3Skipped(questions, progress, count) == questions

\* a faulty stage 3: only the chosen ids are excluded
Stage3ChosenOnly(questions, progress, count) ==
  IF Len(questions) < count
  THEN LET random_query ==
             [difficulty |-> None, subject |-> None, topic |-> None,
              skills |-> None,
              nin |-> {questions[i].id : i \in 1..Len(questions)}]
       IN questions \o Take(Find(random_query), count - Len(questions))
  ELSE questions

\* stage 3: with still too few, any question not chosen and not completed
Stage3(questions, progress, count) ==
  IF Len(questions) < count
  THEN LET random_query ==
             [difficulty |-> None, subject |-> None, topic |-> None,
              skills |-> None,
              nin |-> {questions[i].id : i \in 1..Len(questions)}
                        \cup Range(progress.completed_questions)]
       IN questions \o Take(Find(random_query), count - Len(questions))
  ELSE questions

get_next_questions(count, difficulty, subject, topic, progress) ==
  LET query == WithWeakSkill(
                 BuildQuery(difficulty, subject, topic, progress),
                 progress)
  IN Stage3(Stage2(Stage1(query, count), query, count), progress, count)

\* ------------------------------------------------------------ the workers
\* calls[p] is what worker p is doing: the call it runs, the step it is at
\* (pc) and the call's local variables; a worker returns to Idle when its
\* call returns or raises.  A handler's response is the record with pc "done"
\* that its worker holds until the response is sent.
Idle == [op |-> "idle", pc |-> "idle"]

Free(p) == calls[p] = Idle

\* answer submissions that have not yet inserted their answer record
PendingInserts == {p \in Procs : calls[p].pc = "insert_answer"}

\* what the store holds once OtherUser has answered the last question of
\* the catalog correctly
OtherAnswer ==
  LET question == Questions[Len(Questions)]
      result == EvaluateAnswer(question, question.correct_answer)
  IN [user_id |-> OtherUser, question_id |-> question.id,
      user_answer |-> question.correct_answer,
      is_correct |-> result.is_correct, time_taken |-> 4,
      score |-> result.score]

OtherProgress ==
  ApplyAnswer(DefaultProgress(OtherUser), OtherAnswer.question_id,
              Questions[Len(Questions)], OtherAnswer.is_correct)

\* the store is empty, or holds the other user's records already
Init ==
  /\ \/ user_progress = <<>> /\ user_answers = <<>>
     \/ user_progress = <<OtherProgress>> /\ user_answers = <<OtherAnswer>>
  /\ users_collection = <<>>
  /\ now = 0
  /\ calls = [p \in Procs |-> Idle]

\* --- save_user_answer(db, user_id, question_id, user_answer, time_taken)
\* find_one on the catalog, then the evaluation; "Question not found" is
\* raised before anything is written
SaveUserAnswer(p, user_id, question_id, user_answer, time_taken) ==
  /\ Free(p)
  /\ Cardinality({i \in 1..Len(user_answers) :
                    user_answers[i].user_id = user_id})
       + Cardinality(PendingInserts) < MaxAnswers
  /\ LET i == FindQuestion(question_id)
     IN calls' = [calls EXCEPT ![p] =
          IF i = 0 THEN Idle
          ELSE [op |-> "save_user_answer", pc |-> "insert_answer",
                user_id |-> user_id, question_id |-> question_id,
                user_answer |-> user_answer, time_taken |-> time_taken,
                result |-> EvaluateAnswer(Questions[i], user_answer),
                progress |-> DefaultProgress(user_id)]]
  /\ UNCHANGED <<user_progress, user_answers, accounts>>

\* a faulty save: the record takes the place of the last stored one
InsertAnswerOverwrites(p) ==
  /\ calls[p].pc = "insert_answer"
  /\ user_answers' =
       LET record == [user_id |-> calls[p].user_id,
                      question_id |-> calls[p].question_id,
                      user_answer |-> calls[p].user_answer,
                      is_correct |-> calls[p].result.is_correct,
                      time_taken |-> calls[p].time_taken,
                      score |-> calls[p].result.score]
       IN IF user_answers = <<>> THEN <<record>>
          ELSE [user_answers EXCEPT ![Len(user_answers)] = record]
  /\ calls' = [calls EXCEPT ![p].pc = "find_progress"]
  /\ UNCHANGED <<user_progress, accounts>>

\* db.user_answers.insert_one(answer_record)
InsertAnswer(p) ==
  /\ calls[p].pc = "insert_answer"
  /\ user_answers' = Append(user_answers,
       [user_id |-> calls[p].user_id,
        question_id |-> calls[p].question_id,
        user_answer |-> calls[p].user_answer,
        is_correct |-> calls[p].result.is_correct,
        time_taken |-> calls[p].time_taken,
        score |-> calls[p].result.score])
  /\ calls' = [calls EXCEPT ![p].pc = "find_progress"]
  /\ UNCHANGED <<user_progress, accounts>>

\* update_user_progress: progress = find_one(...), or a new record
ReadProgress(p) ==
  /\ calls[p].pc = "find_progress"
  /\ calls' = [calls EXCEPT
       ![p].pc = "update_progress",
       ![p].progress = FindProgress(user_progress, calls[p].user_id)]
  /\ UNCHANGED <<user_progress, user_answers, accounts>>

\* what update_user_progress hands to update_one
UpdatedProgress(c) ==
  ApplyAnswer(c.progress, c.question_id,
              Questions[FindQuestion(c.question_id)], c.result.is_correct)

\* update_user_progress: the changes to the copy, then update_one with
\* upsert; save_user_answer returns, to the handler that called it if any
WriteProgress(p) ==
  /\ calls[p].pc = "update_progress"
  /\ user_progress' = UpsertProgress(user_progress, calls[p].user_id,
                                     UpdatedProgress(calls[p]))
  /\ calls' = [calls EXCEPT ![p] =
       IF calls[p].op = "submit_answer"
       THEN [calls[p] EXCEPT !.pc = "performance"]
       ELSE Idle]
  /\ UNCHANGED <<user_answers, accounts>>

\* --- get_user_progress(db, user_id)
\* find_one; the call returns at once when a document was found
GetUserProgress(p, user_id) ==
  /\ Free(p)
  /\ calls' = [calls EXCEPT ![p] =
       IF HasDoc(user_progress, user_id) THEN Idle
       ELSE [op |-> "get_user_progress", pc |-> "insert_progress",
             user_id |-> user_id, progress |-> DefaultProgress(user_id)]]
  /\ UNCHANGED <<user_progress, user_answers, accounts>>

\* insert_one(progress) of the default record, then return
InsertDefaultProgress(p) ==
  /\ calls[p].op = "get_user_progress"
  /\ calls[p].pc = "insert_progress"
  /\ user_progress' = InsertProgress(user_progress, calls[p].progress)
  /\ calls' = [calls EXCEPT ![p] = Idle]
  /\ UNCHANGED <<user_answers, accounts>>

Submit(p) ==
  \E user_id \in Users, question_id \in RequestIds,
     user_answer \in Answers, time_taken \in TimeTakenValues :
       SaveUserAnswer(p, user_id, question_id, user_answer, time_taken)

ReadOwnProgress(p) == \E user_id \in Users : GetUserProgress(p, user_id)

\* the steps of the submissions and progress reads of worker p
CoreStep(p) ==
  \/ Submit(p)
  \/ InsertAnswer(p)
  \/ ReadProgress(p)
  \/ WriteProgress(p)
  \/ ReadOwnProgress(p)
  \/ InsertDefaultProgress(p)

Next == \E p \in Procs : CoreStep(p)

Spec == Init /\ [][Next]_vars

\* ------------------------------------------ GET /questions/{id} handler
\* an id that ObjectId() does not accept
MalformedId == "zz"

IsObjectId(id) == id # MalformedId

\* get_question_by_id: the position of the question in the catalog; 0 (None)
\* when the id is malformed (the exception is caught) or no question has it
get_question_by_id(question_id) ==
  IF IsObjectId(question_id) THEN FindQuestion(question_id) ELSE 0

\* a faulty formatter: only correct_answer is removed
FormatKeepsExplanations(question) ==
  [field \in DOMAIN question \ {"correct_answer"} |-> question[field]]

\* format_question_response: a copy of the document without the fields
\* correct_answer and explanations
format_question_response(question) ==
  [field \in DOMAIN question \ {"correct_answer", "explanations"} |->
     question[field]]

\* the handler: the 404 it raises for a missing question is raised inside
\* its own "try" and caught by "except Exception", which answers 500
get_question(p, question_id) ==
  LET i == get_question_by_id(question_id)
  IN /\ Free(p)
     /\ calls' = [calls EXCEPT ![p] =
          IF i = 0
          THEN [op |-> "get_question", pc |-> "done", status |-> 500,
                question_id |-> question_id]
          ELSE [op |-> "get_question", pc |-> "done", status |-> 200,
                question_id |-> question_id,
                question |-> format_question_response(Questions[i])]]
     /\ UNCHANGED <<user_progress, user_answers, accounts>>

GetQuestion(p) ==
  \E question_id \in RequestIds \cup {MalformedId} :
    get_question(p, question_id)

\* ------------------------------------ GET /questions/next/{count} handler
MinCount == 1
MaxCount == 10

Counts == MinCount..MaxCount
RequestCounts == (MinCount - 1)..(MaxCount + 1)
Difficulties == {None, "easy"}
Subjects == {None, "math"}
Topics == {None, "algebra", "geometry"}
Credentials == {"token-u1", "token-u2"}

\* get_current_user for a request with a valid credential: the TokenData
\* built from the token's "sub"
get_current_user(token) ==
  [username |-> IF token = "token-u1" THEN "u1@example.org"
                ELSE "u2@example.org"]

\* the user a credential was issued to at login
CredentialUser(token) == IF token = "token-u1" THEN "u1" ELSE OtherUser

\* a faulty range check: no upper limit
CountBelowRange(count) == count < MinCount

\* "if count < 1 or count > 10"
CountOutOfRange(count) == count < MinCount \/ count > MaxCount

\* lines 73-92 of get_stack_of_questions: the selector on the progress
\* document get_user_progress returned, 404 for an empty list
QuestionsResponse(c, progress) ==
  LET questions == get_next_questions(c.count, c.difficulty, c.subject,
                                      c.topic, progress)
  IN [op |-> "get_stack_of_questions", pc |-> "done", count |-> c.count,
      status |-> IF questions = <<>> THEN 404 ELSE 200,
      user_id |-> c.user_id, difficulty |-> c.difficulty,
      subject |-> c.subject, topic |-> c.topic,
      questions |-> [i \in 1..Len(questions) |->
                       format_question_response(questions[i])]]

\* the handler from line 71 on, for a user id: get_user_progress's find_one
\* and, when the document exists, the selector and the response
StackOfQuestions(p, user_id, count, difficulty, subject, topic) ==
  LET c == [op |-> "get_stack_of_questions", pc |-> "insert_progress",
            user_id |-> user_id, count |-> count,
            difficulty |-> difficulty, subject |-> subject,
            topic |-> topic, progress |-> DefaultProgress(user_id)]
  IN /\ Free(p)
     /\ calls' = [calls EXCEPT ![p] =
          IF HasDoc(user_progress, user_id)
          THEN QuestionsResponse(c, FindProgress(user_progress, user_id))
          ELSE c]
     /\ UNCHANGED <<user_progress, user_answers, accounts>>

\* get_user_progress's insert_one for a new user, then the selector
InsertThenSelect(p) ==
  /\ calls[p].op = "get_stack_of_questions"
  /\ calls[p].pc = "insert_progress"
  /\ user_progress' = InsertProgress(user_progress, calls[p].progress)
  /\ calls' = [calls EXCEPT ![p] =
       QuestionsResponse(calls[p], calls[p].progress)]
  /\ UNCHANGED <<user_answers, accounts>>

\* the handler as the framework calls it, current_user being what
\* get_current_user returned
get_stack_of_questions(p, token, count, difficulty, subject, topic) ==
  LET current_user == get_current_user(token)
  IN /\ Free(p)
     /\ IF CountOutOfRange(count)
        THEN /\ calls' = [calls EXCEPT ![p] =
                  [op |-> "get_stack_of_questions", pc |-> "done",
                   count |-> count, status |-> 400]]
             /\ UNCHANGED <<user_progress, user_answers, accounts>>
        ELSE IF "_id" \notin DOMAIN current_user
        THEN \* current_user["_id"] raises
             /\ calls' = [calls EXCEPT ![p] =
                  [op |-> "get_stack_of_questions", pc |-> "done",
                   count |-> count, status |-> 500, token |-> token]]
             /\ UNCHANGED <<user_progress, user_answers, accounts>>
        ELSE StackOfQuestions(p, current_user["_id"], count, difficulty,
                              subject, topic)

ListQuestions(p) ==
  \E user_id \in Users, count \in Counts, difficulty \in Difficulties,
     subject \in Subjects, topic \in Topics :
       StackOfQuestions(p, user_id, count, difficulty, subject, topic)

RequestQuestions(p) ==
  \E token \in Credentials, count \in RequestCounts,
     difficulty \in Difficulties, subject \in Subjects, topic \in Topics :
       get_stack_of_questions(p, token, count, difficulty, subject, topic)

\* the response is sent
Return(p) ==
  /\ calls[p].pc = "done"
  /\ calls' = [calls EXCEPT ![p] = Idle]
  /\ UNCHANGED <<user_progress, user_answers, accounts>>

\* the calls run one at a time
SeqProcs == {"w1"}

NextSel ==
  \E p \in SeqProcs :
    \/ CoreStep(p)
    \/ ListQuestions(p)
    \/ InsertThenSelect(p)
    \/ RequestQuestions(p)
    \/ GetQuestion(p)
    \/ Return(p)

SpecSel == Init /\ [][NextSel]_vars

\* --------------------------------------------------- recommendation engine
\* question.get("difficulty", "medium")
DifficultyOf(question) ==
  IF question.has_difficulty THEN question.difficulty ELSE "medium"

\* the store compares two strings character by character: the place of a
\* difficulty value in that order
StringOrder(difficulty) ==
  CASE difficulty = "easy" -> 1
    [] difficulty = "hard" -> 2
    [] difficulty = "medium" -> 3

\* the position of the question with the id in a catalog, 0 for None
PositionIn(questions, question_id) ==
  IF /\ IsObjectId(question_id)
     /\ \E i \in 1..Len(questions) : questions[i].id = question_id
  THEN CHOOSE i \in 1..Len(questions) : questions[i].id = question_id
  ELSE 0

\* the branch query of recommend_next_question: cmp is the operator on
\* difficulty, nin the "$nin" list (empty when the key is not set), skills
\* the "$in" list under "skills" (has_skills: the key is set)
BranchQuery(question, progress, is_correct) ==
  IF is_correct
  THEN [topic |-> question.topic, cmp |-> "$gt",
        difficulty |-> DifficultyOf(question), ne |-> question.id,
        nin |-> Range(progress.completed_questions),
        has_skills |-> FALSE, skills |-> <<>>]
  ELSE [topic |-> question.topic, cmp |-> "$lte",
        difficulty |-> DifficultyOf(question), ne |-> question.id,
        nin |-> {},
        has_skills |-> question.has_skills, skills |-> question.skills]

\* a faulty fallback: the completed questions are not excluded
BasicQueryKeepsCompleted(question, progress) ==
  [topic |-> None, cmp |-> None, difficulty |-> None, ne |-> question.id,
   nin |-> {}, has_skills |-> FALSE, skills |-> <<>>]

\* basic_query: any question but the current one and the completed ones
BasicQuery(question, progress) ==
  [topic |-> None, cmp |-> None, difficulty |-> None, ne |-> question.id,
   nin |-> Range(progress.completed_questions),
   has_skills |-> FALSE, skills |-> <<>>]

\* a comparison operator on a string matches only documents that have the
\* field, by the store's order of strings
MatchesDifficulty(candidate, query) ==
  CASE query.cmp = None -> TRUE
    [] query.cmp = "$gt" ->
         /\ candidate.has_difficulty
         /\ StringOrder(candidate.difficulty) > StringOrder(query.difficulty)
    [] query.cmp = "$lte" ->
         /\ candidate.has_difficulty
         /\ StringOrder(candidate.difficulty) <= StringOrder(query.difficulty)

MatchesRecommendation(candidate, query) ==
  /\ query.topic # None => candidate.topic = query.topic
  /\ MatchesDifficulty(candidate, query)
  /\ candidate.id # query.ne
  /\ candidate.id \notin query.nin
  /\ query.has_skills =>
       /\ candidate.has_skills
       /\ Range(candidate.skills) \cap Range(query.skills) # {}

\* db.questions.find_one(query): the first match in catalog order, 0 if none
FindOne(questions, query) ==
  IF \E i \in 1..Len(questions) : MatchesRecommendation(questions[i], query)
  THEN CHOOSE i \in 1..Len(questions) :
         /\ MatchesRecommendation(questions[i], query)
         /\ \A j \in 1..(i - 1) : ~MatchesRecommendation(questions[j], query)
  ELSE 0

\* recommend_next_question on the catalog questions, with the progress
\* document get_user_progress returned: the id of the next question or None
recommend_next_question(questions, progress, current_question_id, result) ==
  LET i == PositionIn(questions, current_question_id)
  IN IF i = 0 THEN None
     ELSE LET branch == FindOne(questions,
                          BranchQuery(questions[i], progress,
                                      result.is_correct))
              next == IF branch # 0 THEN branch
                      ELSE FindOne(questions,
                                   BasicQuery(questions[i], progress))
          IN IF next # 0 THEN questions[next].id ELSE None

\* ---------------------------------- POST /questions/{id}/answer handler
RECURSIVE SortByMastery(_)
\* skill_levels.sort(key=mastery_level): ascending, ties keep their order
SortByMastery(levels) ==
  IF levels = <<>> THEN <<>>
  ELSE LET m == CHOOSE i \in 1..Len(levels) :
                  /\ \A j \in 1..Len(levels) :
                       levels[i].mastery_level <= levels[j].mastery_level
                  /\ \A j \in 1..(i - 1) :
                       levels[j].mastery_level > levels[i].mastery_level
       IN <<levels[m]>>
            \o SortByMastery(SelectIdx(levels, (1..Len(levels)) \ {m}, 1))

\* the metrics of calculate_user_performance for a progress document;
\* accuracy is in units of 1/MasteryScale percent
calculate_user_performance(progress) ==
  LET skill_levels ==
        SortByMastery([k \in 1..Len(progress.skills) |->
          [skill |-> progress.skills[k].skill,
           mastery_level |-> progress.skills[k].mastery_level,
           attempts |-> progress.skills[k].attempts]])
      n == Len(skill_levels)
  IN [accuracy |-> IF progress.total_attempts > 0
                   THEN Accuracy(progress.correct_answers,
                                 progress.total_attempts)
                   ELSE 0,
      total_questions_attempted |-> progress.total_attempts,
      unique_questions_completed |-> Len(progress.completed_questions),
      unique_questions_attempted |-> Len(progress.attempted_questions),
      strengths |-> IF n > 3 THEN SubSeq(skill_levels, n - 2, n)
                    ELSE skill_levels,
      weaknesses |-> Take(skill_levels, 3)]

\* the response of a handler whose "except Exception" caught something
InternalError(op, question_id) ==
  [op |-> op, pc |-> "done", status |-> 500, question_id |-> question_id]

\* the handler up to the call of save_user_answer, current_user being the
\* value its dependency supplied: the 404 raised for a missing question and
\* the failing current_user["_id"] are both caught by "except Exception";
\* save_user_answer then finds the question and evaluates the answer
submit_answer(p, current_user, question_id, user_answer, time_taken) ==
  LET i == get_question_by_id(question_id)
  IN /\ Free(p)
     /\ calls' = [calls EXCEPT ![p] =
          IF i = 0 \/ "_id" \notin DOMAIN current_user
          THEN InternalError("submit_answer", question_id)
          ELSE [op |-> "submit_answer", pc |-> "insert_answer",
                user_id |-> current_user["_id"],
                question_id |-> question_id,
                user_answer |-> user_answer, time_taken |-> time_taken,
                result |-> EvaluateAnswer(Questions[i], user_answer),
                progress |-> DefaultProgress(current_user["_id"])]]
     /\ UNCHANGED <<user_progress, user_answers, accounts>>

\* calculate_user_performance: get_user_progress, which inserts the default
\* document when it finds none, and the metrics
Performance(p) ==
  /\ calls[p].op = "submit_answer"
  /\ calls[p].pc = "performance"
  /\ LET user_id == calls[p].user_id
         progress == FindProgress(user_progress, user_id)
     IN /\ user_progress' = IF HasDoc(user_progress, user_id)
                            THEN user_progress
                            ELSE InsertProgress(user_progress, progress)
        /\ calls' = [calls EXCEPT ![p] =
             [op |-> "submit_answer", pc |-> "recommend",
              user_id |-> user_id, question_id |-> calls[p].question_id,
              result |-> calls[p].result,
              performance |-> calculate_user_performance(progress)]]
  /\ UNCHANGED <<user_answers, accounts>>

\* recommend_next_question, with its own get_user_progress, and the response
Recommend(p) ==
  /\ calls[p].op = "submit_answer"
  /\ calls[p].pc = "recommend"
  /\ LET user_id == calls[p].user_id
         progress == FindProgress(user_progress, user_id)
     IN /\ user_progress' = IF HasDoc(user_progress, user_id)
                            THEN user_progress
                            ELSE InsertProgress(user_progress, progress)
        /\ calls' = [calls EXCEPT ![p] =
             [op |-> "submit_answer", pc |-> "done", status |-> 200,
              user_id |-> user_id, question_id |-> calls[p].question_id,
              correct |-> calls[p].result.is_correct,
              score |-> calls[p].result.score,
              feedback |-> calls[p].result.feedback,
              performance |-> calls[p].performance,
              next_question_id |->
                recommend_next_question(Questions, progress,
                                        calls[p].question_id,
                                        calls[p].result)]]
  /\ UNCHANGED <<user_answers, accounts>>

\* the steps of the handler that call the store
StoreSteps ==
  {"insert_answer", "find_progress", "update_progress", "performance",
   "recommend"}

\* a faulty handler: an exception of update_one is logged and dropped
FailureSwallowed(c) ==
  IF c.pc = "update_progress" THEN [c EXCEPT !.pc = "performance"]
  ELSE InternalError(c.op, c.question_id)

\* what the handler does with an exception of a store call: nothing in
\* update_user_progress catches it, save_user_answer prints and re-raises,
\* the handler's "except Exception" answers 500
FailureResponse(c) == InternalError(c.op, c.question_id)

\* a call of the store raises (connection lost, timeout): nothing is written
StoreFailure(p) ==
  /\ calls[p].op = "submit_answer"
  /\ calls[p].pc \in StoreSteps
  /\ calls' = [calls EXCEPT ![p] = FailureResponse(calls[p])]
  /\ UNCHANGED <<user_progress, user_answers, accounts>>

\* a submission may start while the user has fewer than MaxAnswers answers
MaySubmit(user_id) ==
  Cardinality({i \in 1..Len(user_answers) :
                 user_answers[i].user_id = user_id})
    + Cardinality(PendingInserts) < MaxAnswers

\* the handler as the framework calls it
SubmitAnswerRequest(p) ==
  \E token \in Credentials, question_id \in RequestIds \cup {MalformedId},
     user_answer \in Answers, time_taken \in TimeTakenValues :
       submit_answer(p, get_current_user(token), question_id, user_answer,
                     time_taken)

\* the handler for a current_user that carries the user id
SubmitAnswerAsUser(p) ==
  \E user_id \in Users, question_id \in RequestIds \cup {MalformedId},
     user_answer \in Answers, time_taken \in TimeTakenValues :
       /\ MaySubmit(user_id)
       /\ submit_answer(p, [_id |-> user_id], question_id, user_answer,
                        time_taken)

NextAns ==
  \E p \in SeqProcs :
    \/ SubmitAnswerRequest(p)
    \/ SubmitAnswerAsUser(p)
    \/ InsertAnswer(p)
    \/ ReadProgress(p)
    \/ WriteProgress(p)
    \/ Performance(p)
    \/ Recommend(p)
    \/ StoreFailure(p)
    \/ GetQuestion(p)
    \/ Return(p)

SpecAns == Init /\ [][NextAns]_vars

\* ------------------------------------------------- GET /progress handler
\* a faulty get_user_progress: the stored document is replaced by the
\* default one
EnsureProgressResets(coll, user_id) ==
  IF HasDoc(coll, user_id)
  THEN [coll EXCEPT ![FirstDoc(coll, user_id)] = DefaultProgress(user_id)]
  ELSE InsertProgress(coll, DefaultProgress(user_id))

\* the store after get_user_progress: the default document is inserted when
\* find_one returned nothing
EnsureProgress(coll, user_id) ==
  IF HasDoc(coll, user_id) THEN coll
  ELSE InsertProgress(coll, DefaultProgress(user_id))

\* the handler up to the first await that can write: the failing
\* current_user["_id"] is caught by "except Exception"; get_user_progress
\* runs find_one
get_learning_progress(p, current_user) ==
  /\ Free(p)
  /\ calls' = [calls EXCEPT ![p] =
       IF "_id" \notin DOMAIN current_user
       THEN [op |-> "get_learning_progress", pc |-> "done", status |-> 500]
       ELSE [op |-> "get_learning_progress",
             pc |-> IF HasDoc(user_progress, current_user["_id"])
                    THEN "performance" ELSE "insert_progress",
             user_id |-> current_user["_id"],
             progress |-> FindProgress(user_progress, current_user["_id"])]]
  /\ UNCHANGED <<user_progress, user_answers, accounts>>

\* get_user_progress's insert_one of the default document
InsertThenMeasure(p) ==
  /\ calls[p].op = "get_learning_progress"
  /\ calls[p].pc = "insert_progress"
  /\ user_progress' = InsertProgress(user_progress, calls[p].progress)
  /\ calls' = [calls EXCEPT ![p].pc = "performance"]
  /\ UNCHANGED <<user_answers, accounts>>

\* calculate_user_performance, with its own get_user_progress, and the
\* value the handler returns
MeasureProgress(p) ==
  /\ calls[p].op = "get_learning_progress"
  /\ calls[p].pc = "performance"
  /\ user_progress' = EnsureProgress(user_progress, calls[p].user_id)
  /\ calls' = [calls EXCEPT ![p] =
       [op |-> "get_learning_progress", pc |-> "done", status |-> 200,
        user_id |-> calls[p].user_id, progress |-> calls[p].progress,
        performance |->
          calculate_user_performance(
            FindProgress(user_progress, calls[p].user_id))]]
  /\ UNCHANGED <<user_answers, accounts>>

\* the handler as the framework calls it
LearningProgressRequest(p) ==
  \E token \in Credentials :
    get_learning_progress(p, get_current_user(token))

\* the handler for a current_user that carries the user id
LearningProgressAsUser(p) ==
  \E user_id \in Users : get_learning_progress(p, [_id |-> user_id])

\* "count: int = 3"
DefaultCount == 3

\* a question-list request without filters, for the default count
ListDefault(p) ==
  \E user_id \in Users :
    StackOfQuestions(p, user_id, DefaultCount, None, None, None)

\* the submissions and the read operations of one worker, and question
\* fetches by any worker
NextRead ==
  \/ \E p \in SeqProcs :
       \/ SubmitAnswerAsUser(p)
       \/ InsertAnswer(p)
       \/ ReadProgress(p)
       \/ WriteProgress(p)
       \/ Performance(p)
       \/ Recommend(p)
       \/ SubmitAnswerRequest(p)
       \/ ListDefault(p)
       \/ InsertThenSelect(p)
       \/ RequestQuestions(p)
       \/ LearningProgressRequest(p)
       \/ LearningProgressAsUser(p)
       \/ InsertThenMeasure(p)
       \/ MeasureProgress(p)
  \/ \E p \in Procs : GetQuestion(p) \/ Return(p)

SpecRead == Init /\ [][NextRead]_vars

\* ------------------------------------------- the evaluator on its inputs
\* question documents that differ in the fields the evaluator reads
EvalTypes == {"multiple_choice", "text", "true_false"}

EvalQuestions ==
  { [has_type |-> has_type, type |-> IF has_type THEN type ELSE "",
     correct_answer |-> correct_answer,
     has_points |-> has_points, points |-> IF has_points THEN 5 ELSE 0,
     explanations |-> explanations,
     has_explanation |-> has_explanation,
     explanation |-> IF has_explanation THEN "see chapter 3" ELSE ""] :
      has_type \in BOOLEAN, type \in EvalTypes,
      correct_answer \in { <<"A">>, <<"a", " ">> },
      has_points \in BOOLEAN,
      explanations \in {NoExplanations, <<" ", "b">> :> "too broad"},
      has_explanation \in BOOLEAN }

EvalAnswers == { <<"A">>, <<"a">>, <<" ", "b">>, <<" ", "A", " ">>, <<>> }

\* a call of save_user_answer is about to evaluate an answer to a question
InitEval ==
  /\ \/ user_progress = <<>> /\ user_answers = <<>>
     \/ user_progress = <<OtherProgress>> /\ user_answers = <<OtherAnswer>>
  /\ users_collection = <<>>
  /\ now = 0
  /\ \E question \in EvalQuestions, user_answer \in EvalAnswers :
       calls = [p \in Procs |->
                  IF p \in SeqProcs
                  THEN [op |-> "evaluate", pc |-> "evaluate",
                        question |-> question, user_answer |-> user_answer]
                  ELSE Idle]

\* lines 109-135 of save_user_answer
Evaluate(p) ==
  /\ calls[p].op = "evaluate"
  /\ calls[p].pc = "evaluate"
  /\ calls' = [calls EXCEPT ![p] =
       [op |-> "evaluate", pc |-> "done",
        question |-> calls[p].question,
        user_answer |-> calls[p].user_answer,
        result |-> EvaluateAnswer(calls[p].question, calls[p].user_answer)]]
  /\ UNCHANGED <<user_progress, user_answers, accounts>>

NextEval == \E p \in SeqProcs : Evaluate(p) \/ Return(p)

SpecEval == InitEval /\ [][NextEval]_vars

\* ------------------------------------ the recommendation on its inputs
\* a multiple-choice question document for a catalog of three
RecQuestion(id, topic, has_difficulty, difficulty, has_skills, skills) ==
  [id |-> id, has_type |-> TRUE, type |-> "multiple_choice",
   has_difficulty |-> has_difficulty, difficulty |-> difficulty,
   subject |-> "math", topic |-> topic,
   has_skills |-> has_skills, skills |-> skills, priority |-> 1,
   correct_answer |-> <<"A">>, has_points |-> FALSE, points |-> 0,
   explanations |-> NoExplanations,
   has_explanation |-> FALSE, explanation |-> ""]

RecDifficulties == {"easy", "medium", "hard"}

\* the question that is answered: its difficulty and skills may be missing
AnsweredQuestions ==
  { RecQuestion("q1", "algebra", TRUE, difficulty, TRUE, <<"add">>) :
      difficulty \in RecDifficulties }
  \cup { RecQuestion("q1", "algebra", TRUE, difficulty, FALSE, <<>>) :
           difficulty \in RecDifficulties }
  \cup { RecQuestion("q1", "algebra", FALSE, "", TRUE, <<"add">>),
         RecQuestion("q1", "algebra", FALSE, "", FALSE, <<>>) }

\* the other questions of the catalog
OtherQuestions(id) ==
  { RecQuestion(id, topic, TRUE, difficulty, TRUE, skills) :
      topic \in {"algebra", "geometry"}, difficulty \in RecDifficulties,
      skills \in { <<"add">>, <<"mul">> } }

RecCatalogs ==
  { <<answered, second, third>> :
      answered \in AnsweredQuestions, second \in OtherQuestions("q2"),
      third \in OtherQuestions("q3") }

RecIds == <<"q1", "q2", "q3">>

\* the answer record save_user_answer inserts
AnswerRecord(user_id, question, user_answer) ==
  LET result == EvaluateAnswer(question, user_answer)
  IN [user_id |-> user_id, question_id |-> question.id,
      user_answer |-> user_answer, is_correct |-> result.is_correct,
      time_taken |-> 4, score |-> result.score]

RECURSIVE ProgressAfter(_, _, _)
\* the progress document after the submissions of the answers in order
ProgressAfter(progress, questions, answers) ==
  IF answers = <<>> THEN progress
  ELSE ProgressAfter(
         ApplyAnswer(progress, Head(answers).question_id,
                     questions[PositionIn(questions,
                                          Head(answers).question_id)],
                     Head(answers).is_correct),
         questions, Tail(answers))

\* user u1 answered the questions of earlier correctly, in catalog order,
\* then submitted user_answer to the first question of the catalog: the
\* handler is about to call recommend_next_question
InitRec ==
  \E questions \in RecCatalogs, earlier \in SUBSET Range(RecIds),
     user_answer \in Answers :
    LET before == SelectIdx(questions,
                            {i \in 1..3 : questions[i].id \in earlier}, 1)
        answers == [i \in 1..Len(before) |->
                      AnswerRecord("u1", before[i],
                                   before[i].correct_answer)]
                   \o <<AnswerRecord("u1", questions[1], user_answer)>>
    IN /\ users_collection = <<>>
       /\ now = 0
       /\ user_answers = answers
       /\ user_progress =
            <<ProgressAfter(DefaultProgress("u1"), questions, answers)>>
       /\ calls = [p \in Procs |->
            IF p \in SeqProcs
            THEN [op |-> "recommend_next_question", pc |-> "recommend",
                  questions |-> questions, user_id |-> "u1",
                  current_question_id |-> questions[1].id,
                  result |-> EvaluateAnswer(questions[1], user_answer)]
            ELSE Idle]

\* recommend_next_question on the catalog of the call; get_user_progress
\* finds the user's document
RecommendNext(p) ==
  /\ calls[p].op = "recommend_next_question"
  /\ calls[p].pc = "recommend"
  /\ HasDoc(user_progress, calls[p].user_id)
  /\ calls' = [calls EXCEPT ![p] =
       [op |-> "recommend_next_question", pc |-> "done",
        questions |-> calls[p].questions, user_id |-> calls[p].user_id,
        current_question_id |-> calls[p].current_question_id,
        result |-> calls[p].result,
        next_question_id |->
          recommend_next_question(calls[p].questions,
                                  FindProgress(user_progress,
                                               calls[p].user_id),
                                  calls[p].current_question_id,
                                  calls[p].result)]]
  /\ UNCHANGED <<user_progress, user_answers, accounts>>

NextRec == \E p \in SeqProcs : RecommendNext(p) \/ Return(p)

SpecRec == InitRec /\ [][NextRec]_vars

\* ------------------------------------------------------ account handlers
\* the users collection holds at most MaxUsers documents; the clock runs in
\* steps of TickMinutes up to MaxNow
MaxUsers == 1
TickMinutes == 5
MaxNow == 15

\* code_expiry = utcnow() + timedelta(minutes=10)
CodeLifetime == 10

Emails == {"u1@example.org"}
Passwords == {"pw1", "pw2"}
\* generate_verification_code draws one of these
Codes == {"111111", "222222"}
Reasons == {None, "spam"}

\* pwd_context.hash and pwd_context.verify: a hash verifies the password it
\* was made from and no other
get_password_hash(password) == <<"bcrypt", password>>
verify_password(plain_password, hashed_password) ==
  hashed_password = <<"bcrypt", plain_password>>

\* a document of the users collection; a has_ flag tells whether the
\* document has the field
UserDoc(email, password, has_is_active, is_active) ==
  [email |-> email, password |-> password,
   has_is_active |-> has_is_active, is_active |-> is_active,
   has_code |-> FALSE, verification_code |-> "", code_expiry |-> 0,
   has_reason |-> FALSE, deactivation_reason |-> ""]

\* a user registered before the is_active field existed
LegacyUser ==
  UserDoc("u1@example.org", get_password_hash("pw1"), FALSE, FALSE)

\* users_collection.find_one({"email": email}): the position of the first
\* match, 0 for None
FindUser(coll, email) ==
  IF \E i \in 1..Len(coll) : coll[i].email = email
  THEN CHOOSE i \in 1..Len(coll) :
         /\ coll[i].email = email
         /\ \A j \in 1..(i - 1) : coll[j].email # email
  ELSE 0

\* user.get("is_active", True)
IsActive(user) == IF user.has_is_active THEN user.is_active ELSE TRUE

\* user.get("verification_code") != request.code
\*   or datetime.utcnow() > user.get("code_expiry")
CodeRejected(user, code, utcnow) ==
  \/ ~user.has_code
  \/ user.verification_code # code
  \/ utcnow > user.code_expiry

\* a faulty status check: every user counts as active
InactiveNever(user) == FALSE

\* "not user.get("is_active", True)"
Inactive(user) == ~IsActive(user)

\* authenticate_user: the position of the user, 0 for False
authenticate_user(coll, username, password) ==
  LET i == FindUser(coll, username)
  IN IF i = 0 THEN 0
     ELSE IF ~verify_password(password, coll[i].password) THEN 0
     ELSE i

InitAuth ==
  /\ user_progress = <<>>
  /\ user_answers = <<>>
  /\ calls = [p \in Procs |-> Idle]
  /\ users_collection \in {<<>>, <<LegacyUser>>}
  /\ now = 0

PendingUsers == {p \in Procs : calls[p].pc = "insert_user"}

\* POST /register up to insert_one: find_one, and the 400 for an email that
\* is registered, deactivated or not
register(p, email, password) ==
  /\ Free(p)
  /\ Len(users_collection) + Cardinality(PendingUsers) < MaxUsers
       \/ FindUser(users_collection, email) # 0
  /\ calls' = [calls EXCEPT ![p] =
       IF FindUser(users_collection, email) # 0
       THEN [op |-> "register", pc |-> "done", status |-> 400,
             email |-> email]
       ELSE [op |-> "register", pc |-> "insert_user", email |-> email,
             doctor_dict |->
               UserDoc(email, get_password_hash(password), TRUE, TRUE)]]
  /\ UNCHANGED <<user_progress, user_answers, accounts>>

\* insert_one(doctor_dict)
InsertUser(p) ==
  /\ calls[p].op = "register"
  /\ calls[p].pc = "insert_user"
  /\ users_collection' = Append(users_collection, calls[p].doctor_dict)
  /\ calls' = [calls EXCEPT ![p] =
       [op |-> "register", pc |-> "done", status |-> 200,
        email |-> calls[p].email]]
  /\ UNCHANGED <<user_progress, user_answers, now>>

\* POST /login: authenticate_user, the status check and the token
login_for_access_token(p, username, password) ==
  LET i == authenticate_user(users_collection, username, password)
  IN /\ Free(p)
     /\ calls' = [calls EXCEPT ![p] =
          IF i = 0
          THEN [op |-> "login", pc |-> "done", status |-> 400,
                username |-> username, password |-> password]
          ELSE IF Inactive(users_collection[i])
          THEN [op |-> "login", pc |-> "done", status |-> 403,
                username |-> username, password |-> password]
          ELSE [op |-> "login", pc |-> "done", status |-> 200,
                username |-> username, password |-> password,
                access_token |-> [sub |-> users_collection[i].email]]]
     /\ UNCHANGED <<user_progress, user_answers, accounts>>

\* POST /forgot-password up to update_one: find_one, the new code and its
\* expiry
forgot_password(p, email, verification_code) ==
  /\ Free(p)
  /\ calls' = [calls EXCEPT ![p] =
       IF FindUser(users_collection, email) = 0
       THEN [op |-> "forgot_password", pc |-> "done", status |-> 400,
             email |-> email]
       ELSE [op |-> "forgot_password", pc |-> "store_code",
             email |-> email, verification_code |-> verification_code,
             code_expiry |-> now + CodeLifetime]]
  /\ UNCHANGED <<user_progress, user_answers, accounts>>

\* update_one with "$set" of the code and its expiry, then the mail
StoreCode(p) ==
  /\ calls[p].op = "forgot_password"
  /\ calls[p].pc = "store_code"
  /\ LET i == FindUser(users_collection, calls[p].email)
     IN users_collection' =
          IF i = 0 THEN users_collection
          ELSE [users_collection EXCEPT
                  ![i].has_code = TRUE,
                  ![i].verification_code = calls[p].verification_code,
                  ![i].code_expiry = calls[p].code_expiry]
  /\ calls' = [calls EXCEPT ![p] =
       [op |-> "forgot_password", pc |-> "done", status |-> 200,
        email |-> calls[p].email]]
  /\ UNCHANGED <<user_progress, user_answers, now>>

\* POST /verify-code
verify_code(p, email, code) ==
  LET i == FindUser(users_collection, email)
  IN /\ Free(p)
     /\ calls' = [calls EXCEPT ![p] =
          [op |-> "verify_code", pc |-> "done", email |-> email,
           code |-> code,
           status |-> IF i = 0 THEN 400
                      ELSE IF CodeRejected(users_collection[i], code, now)
                      THEN 400 ELSE 200]]
     /\ UNCHANGED <<user_progress, user_answers, accounts>>

\* POST /reset-password up to update_one: find_one and the comparison, made
\* at the time utcnow
reset_password(p, email, code, new_password) ==
  LET i == FindUser(users_collection, email)
  IN /\ Free(p)
     /\ calls' = [calls EXCEPT ![p] =
          IF i = 0 \/ CodeRejected(users_collection[i], code, now)
          THEN [op |-> "reset_password", pc |-> "done", status |-> 400,
                email |-> email, code |-> code]
          ELSE [op |-> "reset_password", pc |-> "set_password",
                email |-> email, code |-> code, utcnow |-> now,
                hashed_password |-> get_password_hash(new_password)]]
     /\ UNCHANGED <<user_progress, user_answers, accounts>>

\* update_one with "$set" of the password and "$unset" of the code and its
\* expiry
SetPassword(p) ==
  /\ calls[p].op = "reset_password"
  /\ calls[p].pc = "set_password"
  /\ LET i == FindUser(users_collection, calls[p].email)
     IN users_collection' =
          IF i = 0 THEN users_collection
          ELSE [users_collection EXCEPT
                  ![i].password = calls[p].hashed_password,
                  ![i].has_code = FALSE,
                  ![i].verification_code = "",
                  ![i].code_expiry = 0]
  /\ calls' = [calls EXCEPT ![p] =
       [op |-> "reset_password", pc |-> "done", status |-> 200,
        email |-> calls[p].email, code |-> calls[p].code]]
  /\ UNCHANGED <<user_progress, user_answers, now>>

\* POST /users/{user_email}/status of an admin, up to update_one
update_user_status(p, user_email, activate, reason) ==
  /\ Free(p)
  /\ calls' = [calls EXCEPT ![p] =
       IF FindUser(users_collection, user_email) = 0
       THEN [op |-> "update_user_status", pc |-> "done", status |-> 404,
             user_email |-> user_email]
       ELSE [op |-> "update_user_status", pc |-> "set_status",
             user_email |-> user_email, activate |-> activate,
             reason |-> reason]]
  /\ UNCHANGED <<user_progress, user_answers, accounts>>

\* update_one with "$set" of update_data, then the mail
SetStatus(p) ==
  /\ calls[p].op = "update_user_status"
  /\ calls[p].pc = "set_status"
  /\ LET i == FindUser(users_collection, calls[p].user_email)
         keeps_reason == calls[p].activate \/ calls[p].reason = None
     IN users_collection' =
          IF i = 0 THEN users_collection
          ELSE [users_collection EXCEPT
                  ![i].has_is_active = TRUE,
                  ![i].is_active = calls[p].activate,
                  ![i].has_reason = IF keeps_reason THEN @ ELSE TRUE,
                  ![i].deactivation_reason =
                    IF keeps_reason THEN @ ELSE calls[p].reason]
  /\ calls' = [calls EXCEPT ![p] =
       [op |-> "update_user_status", pc |-> "done", status |-> 200,
        user_email |-> calls[p].user_email, activate |-> calls[p].activate]]
  /\ UNCHANGED <<user_progress, user_answers, now>>

\* time passes
Tick ==
  /\ now + TickMinutes <= MaxNow
  /\ now' = now + TickMinutes
  /\ UNCHANGED <<user_progress, user_answers, calls, users_collection>>

\* the steps of the account handlers run by worker p
AccountStep(p) ==
  \/ \E email \in Emails, password \in Passwords :
       register(p, email, password)
  \/ InsertUser(p)
  \/ \E username \in Emails, password \in Passwords :
       login_for_access_token(p, username, password)
  \/ \E email \in Emails, verification_code \in Codes :
       forgot_password(p, email, verification_code)
  \/ StoreCode(p)
  \/ \E email \in Emails, code \in Codes : verify_code(p, email, code)
  \/ \E email \in Emails, code \in Codes, new_password \in Passwords :
       reset_password(p, email, code, new_password)
  \/ SetPassword(p)
  \/ \E user_email \in Emails, activate \in BOOLEAN, reason \in Reasons :
       update_user_status(p, user_email, activate, reason)
  \/ SetStatus(p)
  \/ Return(p)

\* the account handlers, their requests served at the same time
NextAuth == Tick \/ \E p \in Procs : AccountStep(p)

SpecAuth == InitAuth /\ [][NextAuth]_vars

\* the account handlers, one request at a time
NextAuthSeq == Tick \/ \E p \in SeqProcs : AccountStep(p)

SpecAuthSeq == InitAuth /\ [][NextAuthSeq]_vars

\* ------------------------------------------------------------ properties
ProgressOf(user_id) == FindProgress(user_progress, user_id)

AnswersOf(user_id) ==
  {i \in 1..Len(user_answers) : user_answers[i].user_id = user_id}

AllUsers == Users \cup {OtherUser}

NoSubmissionRunning == \A p \in Procs : calls[p].op # "save_user_answer"

\* the step in which worker p's update_user_progress writes and returns
WritesProgress(p) == calls[p].pc = "update_progress" /\ calls'[p] = Idle

\* worker p holds the response to a question-list request
Listed(p) ==
  /\ calls[p].op = "get_stack_of_questions"
  /\ calls[p].pc = "done"
  /\ calls[p].status \in {200, 404}

\* C1: once the answer submissions of a user have all completed, whatever
\* their interleaving, total_attempts counts every one of them and every
\* submitted question id is in attempted_questions (no update is lost).
C1_NoLostUpdate ==
  NoSubmissionRunning =>
    \A u \in Users :
      /\ ProgressOf(u).total_attempts = Cardinality(AnswersOf(u))
      /\ \A i \in AnswersOf(u) :
           Contains(ProgressOf(u).attempted_questions,
                    user_answers[i].question_id)

\* C2: in every reachable state the progress store holds at most one
\* Progress document per user id.
C2_OneDocumentPerUser ==
  \A u \in AllUsers : Cardinality(DocsOf(user_progress, u)) <= 1

\* C3: the write of an answer submission leaves the user's total_attempts
\* exactly 1 above the value the call found when it began, and
\* attempted_questions a superset of the value it found that contains the
\* submitted question id.
C3_AttemptCounted ==
  [][\A p \in Procs :
       WritesProgress(p) =>
         LET before == calls[p].progress
             after == FindProgress(user_progress', calls[p].user_id)
         IN /\ after.total_attempts = before.total_attempts + 1
            /\ Range(before.attempted_questions)
                 \subseteq Range(after.attempted_questions)
            /\ Contains(after.attempted_questions, calls[p].question_id)]_vars

\* C3 witness: a user has a correct and an incorrect submission on record,
\* the second one made on an existing document.
C3_Witness ==
  \E u \in Users :
    /\ HasDoc(user_progress, u)
    /\ ProgressOf(u).total_attempts >= 2
    /\ ProgressOf(u).correct_answers >= 1
    /\ ProgressOf(u).correct_answers < ProgressOf(u).total_attempts

\* C4: in every Progress document, in every reachable state,
\* completed_questions is a subset of attempted_questions.
C4_CompletedSubsetAttempted ==
  \A i \in 1..Len(user_progress) :
    Range(user_progress[i].completed_questions)
      \subseteq Range(user_progress[i].attempted_questions)

\* C4 witness: a document with a completed question and an attempted
\* question that is not completed.
C4_Witness ==
  \E u \in Users :
    /\ HasDoc(user_progress, u)
    /\ ProgressOf(u).completed_questions # <<>>
    /\ Len(ProgressOf(u).attempted_questions)
         > Len(ProgressOf(u).completed_questions)

\* C5: in every Progress document, in every reachable state,
\* correct_answers <= total_attempts and every tracked skill has
\* correct <= attempts.
C5_CorrectAtMostAttempts ==
  \A i \in 1..Len(user_progress) :
    /\ user_progress[i].correct_answers <= user_progress[i].total_attempts
    /\ \A k \in 1..Len(user_progress[i].skills) :
         user_progress[i].skills[k].correct
           <= user_progress[i].skills[k].attempts

\* C5 witness: a document, and a skill in it, with correct and incorrect
\* submissions counted.
C5_Witness ==
  \E u \in Users :
    /\ HasDoc(user_progress, u)
    /\ ProgressOf(u).correct_answers >= 1
    /\ ProgressOf(u).correct_answers < ProgressOf(u).total_attempts
    /\ \E k \in 1..Len(ProgressOf(u).skills) :
         /\ ProgressOf(u).skills[k].correct >= 1
         /\ ProgressOf(u).skills[k].correct < ProgressOf(u).skills[k].attempts

\* C6: every tracked skill's mastery_level stays within [0,100], whatever
\* the sequence of correct and incorrect submissions.
C6_MasteryInRange ==
  \A i \in 1..Len(user_progress) :
    \A k \in 1..Len(user_progress[i].skills) :
      /\ user_progress[i].skills[k].mastery_level >= 0
      /\ user_progress[i].skills[k].mastery_level <= 100 * MasteryScale

\* C6 witness: a skill that was practised at least three times, with correct
\* and incorrect answers, and has a positive mastery.
C6_Witness ==
  \E u \in Users :
    \E k \in 1..Len(ProgressOf(u).skills) :
      /\ ProgressOf(u).skills[k].attempts >= 3
      /\ ProgressOf(u).skills[k].correct >= 1
      /\ ProgressOf(u).skills[k].correct < ProgressOf(u).skills[k].attempts
      /\ ProgressOf(u).skills[k].mastery_level > 0

\* C7: for every count in 1..10 and every filter combination the selector
\* returns at most count questions.
C7_AtMostCount ==
  \A p \in Procs :
    Listed(p) => Len(calls[p].questions) <= calls[p].count

\* C7 witness: a request with a topic filter that was answered with exactly
\* count questions, more than the topic has.
C7_Witness ==
  \E p \in Procs :
    /\ Listed(p)
    /\ calls[p].topic # None
    /\ calls[p].count = Len(Questions)
    /\ Len(calls[p].questions) = calls[p].count

\* C8: no question the selector returns has an id in the calling user's
\* completed_questions.
C8_NoneCompleted ==
  \A p \in Procs :
    Listed(p) =>
      \A i \in 1..Len(calls[p].questions) :
        ~Contains(ProgressOf(calls[p].user_id).completed_questions,
                  calls[p].questions[i].id)

\* C8 witness: a user with a completed question asked for more questions
\* than the catalog has and got some.
C8_Witness ==
  \E p \in Procs :
    /\ Listed(p)
    /\ ProgressOf(calls[p].user_id).completed_questions # <<>>
    /\ calls[p].count > Len(Questions)
    /\ calls[p].questions # <<>>

\* C9: the list the selector returns never contains the same question id
\* twice.
C9_NoDuplicateIds ==
  \A p \in Procs :
    Listed(p) =>
      \A i, j \in 1..Len(calls[p].questions) :
        i # j => calls[p].questions[i].id # calls[p].questions[j].id

\* a worker takes a question-list request whose count is out of range
RejectsCount(p) ==
  /\ Free(p)
  /\ calls'[p].op = "get_stack_of_questions"
  /\ calls'[p].count \notin Counts

\* C10: a question-list request with count < 1 or count > 10 is answered 400
\* in the step that takes it, before any store access: the collections are
\* unchanged and the handler has nothing left to run.
C10_BadCountRejected ==
  [][\A p \in Procs :
       RejectsCount(p) =>
         /\ calls'[p].pc = "done"
         /\ calls'[p].status = 400
         /\ user_progress' = user_progress
         /\ user_answers' = user_answers]_vars

\* C10 witness: a request with count 11 was answered 400.
C10_Witness ==
  \E p \in Procs :
    /\ calls[p].op = "get_stack_of_questions"
    /\ calls[p].pc = "done"
    /\ calls[p].count = MaxCount + 1
    /\ calls[p].status = 400

\* the user a response to a question-list request with a valid count is for
ListUser(c) ==
  IF c.status = 500 THEN CredentialUser(c.token) ELSE c.user_id

\* the three stages yield nothing for the user, whatever the filters
NothingToSelect(user_id, count) ==
  \A difficulty \in Difficulties, subject \in Subjects, topic \in Topics :
    get_next_questions(count, difficulty, subject, topic,
                       ProgressOf(user_id)) = <<>>

\* C11: a question-list request with a valid count, from a user for whom
\* the three selection stages together yield no question, is answered 404
\* and not 500.
C11_EmptyIsNotFound ==
  \A p \in Procs :
    ( /\ calls[p].op = "get_stack_of_questions"
      /\ calls[p].pc = "done"
      /\ calls[p].count \in Counts
      /\ NothingToSelect(ListUser(calls[p]), calls[p].count) )
    => calls[p].status = 404

\* the same for the part of the handler that follows the user id lookup
C11_BodyEmptyIsNotFound ==
  \A p \in Procs :
    (Listed(p) /\ NothingToSelect(calls[p].user_id, calls[p].count))
    => calls[p].status = 404

\* worker p holds a question payload: the response to GET /questions/{id}
Fetched(p) ==
  /\ calls[p].op = "get_question"
  /\ calls[p].pc = "done"
  /\ calls[p].status = 200

Stripped(payload) ==
  /\ "correct_answer" \notin DOMAIN payload
  /\ "explanations" \notin DOMAIN payload

\* C13: the payload GET /questions/{id} returns, and every element of the
\* array GET /questions/next/{count} returns, has neither a correct_answer
\* field nor an explanations field.
C13_PayloadsStripped ==
  \A p \in Procs :
    /\ Fetched(p) => Stripped(calls[p].question)
    /\ Listed(p) =>
         \A i \in 1..Len(calls[p].questions) :
           Stripped(calls[p].questions[i])

\* C13 witness: the payload of a question whose stored document has a
\* correct answer and a registered explanation was returned, with the
\* question's other fields.
C13_Witness ==
  \E p \in Procs :
    /\ Fetched(p)
    /\ LET question == Questions[FindQuestion(calls[p].question_id)]
       IN /\ DOMAIN question.explanations # {}
          /\ "correct_answer" \in DOMAIN question
          /\ calls[p].question.topic = question.topic

\* worker p holds the response to a request that named a question id no
\* catalog question has, or a malformed one
MissingQuestion(p, op) ==
  /\ calls[p].op = op
  /\ calls[p].pc = "done"
  /\ get_question_by_id(calls[p].question_id) = 0

\* C12: a request naming a question id that is absent from the catalog or
\* malformed is answered 404, for GET /questions/{id} and for
\* POST /questions/{id}/answer.
C12_MissingIsNotFound ==
  \A p \in Procs :
    MissingQuestion(p, "get_question") \/ MissingQuestion(p, "submit_answer")
      => calls[p].status = 404

\* worker p has evaluated an answer to a question whose type field is type
Evaluated(p, type) ==
  /\ calls[p].op = "evaluate"
  /\ calls[p].pc = "done"
  /\ calls[p].question.has_type
  /\ calls[p].question.type = type

\* the reward for a correct answer: the points field, 10 without one
Reward(question) == IF question.has_points THEN question.points ELSE 10

\* C14: for a multiple-choice question an answer equal to correct_answer
\* evaluates to is_correct = true, score = the question's points (10 when
\* it has no points field) and feedback "Correct!"; any other answer
\* evaluates to is_correct = false.
C14_MultipleChoiceExact ==
  \A p \in Procs :
    Evaluated(p, "multiple_choice") =>
      IF calls[p].user_answer = calls[p].question.correct_answer
      THEN /\ calls[p].result.is_correct
           /\ calls[p].result.score = Reward(calls[p].question)
           /\ calls[p].result.feedback = "Correct!"
      ELSE ~calls[p].result.is_correct

\* C14 witness: a correct choice on a question without a points field
\* scored 10.
C14_Witness ==
  \E p \in Procs :
    /\ Evaluated(p, "multiple_choice")
    /\ ~calls[p].question.has_points
    /\ calls[p].user_answer = calls[p].question.correct_answer
    /\ calls[p].result.score = 10

\* C15: for a multiple-choice question a wrong choice scores 0 and its
\* feedback is the explanation registered for that choice, or the generic
\* text when none is registered for it.
C15_WrongChoiceFeedback ==
  \A p \in Procs :
    ( /\ Evaluated(p, "multiple_choice")
      /\ calls[p].user_answer # calls[p].question.correct_answer )
    => /\ calls[p].result.score = 0
       /\ calls[p].result.feedback =
            IF calls[p].user_answer \in DOMAIN calls[p].question.explanations
            THEN calls[p].question.explanations[calls[p].user_answer]
            ELSE "Incorrect choice."

\* C15 witness: a wrong choice with a registered explanation got that
\* explanation as feedback.
C15_Witness ==
  \E p \in Procs :
    /\ Evaluated(p, "multiple_choice")
    /\ calls[p].user_answer # calls[p].question.correct_answer
    /\ calls[p].user_answer \in DOMAIN calls[p].question.explanations
    /\ calls[p].result.feedback = "too broad"

\* a text in lower case without the spaces around it
Normalized(text) ==
  LET inner == {i \in 1..Len(text) : text[i] # " "}
      first == CHOOSE i \in inner : \A j \in inner : i <= j
      last == CHOOSE i \in inner : \A j \in inner : i >= j
  IN IF inner = {} THEN <<>>
     ELSE [i \in 1..(last - first + 1) |->
             CASE text[first + i - 1] = "A" -> "a"
               [] text[first + i - 1] = "B" -> "b"
               [] OTHER -> text[first + i - 1]]

\* C16: for a free-text question the answer is correct exactly when the
\* submitted text and correct_answer are equal after lower-casing and
\* trimming; a correct answer scores the question's points (10 without the
\* field), an incorrect one scores 0 with the question's explanation field,
\* or the generic text, as feedback.
C16_FreeTextNormalized ==
  \A p \in Procs :
    Evaluated(p, "text") =>
      IF Normalized(calls[p].user_answer)
           = Normalized(calls[p].question.correct_answer)
      THEN /\ calls[p].result.is_correct
           /\ calls[p].result.score = Reward(calls[p].question)
      ELSE /\ ~calls[p].result.is_correct
           /\ calls[p].result.score = 0
           /\ calls[p].result.feedback =
                IF calls[p].question.has_explanation
                THEN calls[p].question.explanation
                ELSE "Incorrect answer."

\* C16 witness: a text that differs from correct_answer in case and in the
\* spaces around it was found correct.
C16_Witness ==
  \E p \in Procs :
    /\ Evaluated(p, "text")
    /\ calls[p].user_answer = <<" ", "A", " ">>
    /\ calls[p].question.correct_answer = <<"a", " ">>
    /\ calls[p].result.is_correct

\* C17: a question whose type is neither multiple-choice nor free-text is
\* evaluated like a multiple-choice question: an answer equal to
\* correct_answer is correct and scores the question's points.
C17_UnknownTypeAsChoice ==
  \A p \in Procs :
    ( /\ Evaluated(p, "true_false")
      /\ calls[p].user_answer = calls[p].question.correct_answer )
    => /\ calls[p].result.is_correct
       /\ calls[p].result.score = Reward(calls[p].question)
       /\ calls[p].result.feedback = "Correct!"

\* worker p holds the result of recommend_next_question
Recommended(p) ==
  /\ calls[p].op = "recommend_next_question"
  /\ calls[p].pc = "done"

\* the order of the difficulty categories: easy < medium < hard
Level(difficulty) ==
  CASE difficulty = "easy" -> 1
    [] difficulty = "medium" -> 2
    [] difficulty = "hard" -> 3

\* the level of the answered question, medium when it has no difficulty
AnsweredLevel(question) ==
  IF question.has_difficulty THEN Level(question.difficulty)
  ELSE Level("medium")

\* candidate is a harder question of the answered question's topic that the
\* user has not completed
Harder(candidate, answered, completed) ==
  /\ candidate.id # answered.id
  /\ candidate.topic = answered.topic
  /\ candidate.has_difficulty
  /\ Level(candidate.difficulty) > AnsweredLevel(answered)
  /\ candidate.id \notin completed

\* C18: after a correct answer, if the catalog holds a question of the same
\* topic and of strictly greater difficulty (easy < medium < hard, medium
\* for an answered question without difficulty) that is not the answered
\* question and not completed, recommend_next_question returns the id of
\* such a question.
C18_CorrectGetsHarder ==
  \A p \in Procs :
    Recommended(p) /\ calls[p].result.is_correct =>
      LET questions == calls[p].questions
          answered == questions[1]
          completed == Range(ProgressOf(calls[p].user_id).completed_questions)
          harder == {i \in 1..Len(questions) :
                       Harder(questions[i], answered, completed)}
      IN harder # {} =>
           \E i \in harder : calls[p].next_question_id = questions[i].id

\* candidate is a question of the answered question's topic, not harder
\* than it, that shares a skill tag with it when it has skill tags
SimilarOrEasier(candidate, answered) ==
  /\ candidate.id # answered.id
  /\ candidate.topic = answered.topic
  /\ candidate.has_difficulty
  /\ Level(candidate.difficulty) <= AnsweredLevel(answered)
  /\ answered.has_skills =>
       Range(candidate.skills) \cap Range(answered.skills) # {}

\* C19: after an incorrect answer, if the catalog holds another question of
\* the same topic, of difficulty less than or equal to the answered
\* question's (easy < medium < hard) and, when the answered question has
\* skill tags, with a skill tag in common, recommend_next_question returns
\* the id of such a question, never of a harder one.
C19_IncorrectGetsSimilar ==
  \A p \in Procs :
    ( /\ Recommended(p)
      /\ ~calls[p].result.is_correct
      /\ calls[p].questions[1].has_difficulty ) =>
      LET questions == calls[p].questions
          similar == {i \in 1..Len(questions) :
                        SimilarOrEasier(questions[i], questions[1])}
      IN similar # {} =>
           \E i \in similar : calls[p].next_question_id = questions[i].id

\* worker p holds the success response to an answer submission
Answered(p) ==
  /\ calls[p].op = "submit_answer"
  /\ calls[p].pc = "done"
  /\ calls[p].status = 200

\* the branch query of the recommendation for the response matched nothing
BranchEmpty(c) ==
  FindOne(Questions,
          BranchQuery(Questions[FindQuestion(c.question_id)],
                      ProgressOf(c.user_id), c.correct)) = 0

\* the ids of the questions that are neither the answered one nor completed
Remaining(c) ==
  (QuestionIds \ {c.question_id})
    \ Range(ProgressOf(c.user_id).completed_questions)

\* C20: when the branch query of the recommendation matches nothing, the
\* next_question_id of the success response is the id of a question that is
\* neither the answered one nor completed whenever there is one, and it is
\* None exactly when there is none.
C20_FallbackOrNone ==
  \A p \in Procs :
    Answered(p) /\ BranchEmpty(calls[p]) =>
      IF Remaining(calls[p]) # {}
      THEN calls[p].next_question_id \in Remaining(calls[p])
      ELSE calls[p].next_question_id = None

\* C20 witness: the user completed the whole catalog and the success
\* response to the last submission has no next question.
C20_Witness ==
  \E p \in Procs :
    /\ Answered(p)
    /\ BranchEmpty(calls[p])
    /\ Remaining(calls[p]) = {}
    /\ calls[p].next_question_id = None

\* worker p runs the answer handler and is at the step pc
AtStep(p, pc) == calls[p].op = "submit_answer" /\ calls[p].pc = pc

\* worker p holds the error response of the answer handler after the step
Fails(p) ==
  /\ calls'[p].op = "submit_answer"
  /\ calls'[p].pc = "done"
  /\ calls'[p].status = 500
  /\ user_progress' = user_progress

\* the step writes the progress update of worker p's submission
ProgressUpdated(p) ==
  LET after == FindProgress(user_progress', calls[p].user_id)
  IN /\ HasDoc(user_progress', calls[p].user_id)
     /\ after.total_attempts = calls[p].progress.total_attempts + 1
     /\ Contains(after.attempted_questions, calls[p].question_id)

\* C21: in an answer submission the read and the write of the progress
\* update either succeed or end the request with a 500 response; the handler
\* goes on to the metrics, the recommendation and the success payload only
\* from a step that wrote the progress update.
C21_FailureSurfaces ==
  [][\A p \in Procs :
       /\ AtStep(p, "find_progress") /\ calls'[p] # calls[p] =>
            calls'[p].pc = "update_progress" \/ Fails(p)
       /\ AtStep(p, "update_progress") /\ calls'[p] # calls[p] =>
            \/ calls'[p].pc = "performance" /\ ProgressUpdated(p)
            \/ Fails(p)
       /\ calls'[p].pc = "performance" /\ calls'[p] # calls[p] =>
            AtStep(p, "update_progress") /\ ProgressUpdated(p)
       /\ calls'[p].pc = "recommend" /\ calls'[p] # calls[p] =>
            AtStep(p, "performance")
       /\ ( /\ calls'[p].op = "submit_answer"
            /\ calls'[p].pc = "done"
            /\ calls'[p].status = 200
            /\ calls'[p] # calls[p] ) => AtStep(p, "recommend")]_vars

\* C21 witness: the write of a user's first progress update failed: the
\* answer record is stored, no progress document is, and the response is 500.
C21_Witness ==
  \E p \in Procs, u \in Users :
    /\ calls[p].op = "submit_answer"
    /\ calls[p].pc = "done"
    /\ calls[p].status = 500
    /\ get_question_by_id(calls[p].question_id) # 0
    /\ AnswersOf(u) # {}
    /\ ~HasDoc(user_progress, u)

\* the operations that only read
ReadOps == {"get_question", "get_stack_of_questions", "get_learning_progress"}

\* worker p takes a step of a read operation: of one of the three GET
\* handlers, or of recommend_next_question
ReadStep(p) ==
  /\ calls'[p] # calls[p]
  /\ \/ calls[p].op \in ReadOps
     \/ calls[p] = Idle /\ calls'[p].op \in ReadOps
     \/ AtStep(p, "recommend")

\* the progress store is as it was, or has one more document: the empty one
\* of a user who had none
AtMostCreatesEmpty ==
  \/ user_progress' = user_progress
  \/ \E u \in AllUsers :
       /\ ~HasDoc(user_progress, u)
       /\ user_progress' =
            Append(user_progress,
                   [user_id |-> u, completed_questions |-> <<>>,
                    attempted_questions |-> <<>>, correct_answers |-> 0,
                    total_attempts |-> 0, skills |-> <<>>])

\* C22: no step of GET /questions/{id}, GET /questions/next/{count},
\* GET /progress or recommend_next_question changes an answer record or an
\* existing Progress document (a step may at most add the empty document of
\* a user who has none), and two GET /questions/{id} responses for the same
\* id carry the same payload, whatever was submitted between them.
C22_ReadsDoNotWrite ==
  [][/\ \A p \in Procs :
          ReadStep(p) => user_answers' = user_answers /\ AtMostCreatesEmpty
     /\ \A p, q \in Procs :
          ( /\ calls'[p].op = "get_question" /\ calls'[p].status = 200
            /\ calls'[q].op = "get_question" /\ calls'[q].status = 200
            /\ calls'[p].question_id = calls'[q].question_id )
          => calls'[p].question = calls'[q].question]_vars

\* C22 witness: two workers hold the payload of the same question, the
\* second fetched after the user's progress changed, and a read operation
\* has left the user's answers and counters as the submissions made them.
C22_Witness ==
  /\ \A p \in Procs : Fetched(p)
  /\ \A p, q \in Procs : calls[p].question_id = calls[q].question_id
  /\ \E u \in Users :
       /\ HasDoc(user_progress, u)
       /\ ProgressOf(u).total_attempts = Cardinality(AnswersOf(u))
       /\ ProgressOf(u).total_attempts >= 2

\* worker p's step is the update_one of its submission
Updates(p) == AtStep(p, "update_progress") /\ calls'[p].pc = "performance"

\* a sequence holds no element twice
NoRepeats(seq) == \A i, j \in 1..Len(seq) : seq[i] = seq[j] => i = j

\* C23: the progress update of a submission adds 1 to correct_answers and
\* leaves the question id in completed_questions when the answer was
\* evaluated correct, and leaves correct_answers and completed_questions as
\* they were when it was not; no Progress document ever holds a question id
\* twice in attempted_questions or in completed_questions.
C23_CorrectCountedOnce ==
  [][/\ \A p \in Procs :
          Updates(p) =>
            LET u == calls[p].user_id
                before == FindProgress(user_progress, u)
                after == FindProgress(user_progress', u)
            IN IF calls[p].result.is_correct
               THEN /\ after.correct_answers = before.correct_answers + 1
                    /\ Contains(after.completed_questions,
                                calls[p].question_id)
               ELSE /\ after.correct_answers = before.correct_answers
                    /\ after.completed_questions
                         = before.completed_questions
     /\ \A i \in 1..Len(user_progress') :
          /\ NoRepeats(user_progress'[i].attempted_questions)
          /\ NoRepeats(user_progress'[i].completed_questions)]_vars

\* C23 witness: a user answered one question correctly twice and gave one
\* wrong answer: correct_answers is 2 and one id is completed.
C23_Witness ==
  \E u \in Users :
    /\ HasDoc(user_progress, u)
    /\ ProgressOf(u).correct_answers = 2
    /\ ProgressOf(u).total_attempts = 3
    /\ Len(ProgressOf(u).completed_questions) = 1
    /\ Cardinality({i \in 1..Len(user_answers) :
                      ~user_answers[i].is_correct}) = 1

\* the entry of a skill in a skills list, or the entry a new skill starts
\* from
SkillEntry(skills, skill) ==
  IF SkillPos(skills, skill) = 0
  THEN [skill |-> skill, mastery_level |-> 0, attempts |-> 0, correct |-> 0]
  ELSE skills[SkillPos(skills, skill)]

\* mastery, in units of 1/MasteryScale, is old * 0.9 + (100 * correct /
\* attempts) * 0.1 up to the two roundings of the scaled arithmetic
BlendOf(mastery, old, correct, attempts) ==
  LET exact == 9 * old * attempts + 100 * MasteryScale * correct
  IN /\ 10 * mastery * attempts <= exact
     /\ exact < 10 * (mastery + 2) * attempts

\* C24: the progress update of a submission adds 1 to the attempts of each
\* skill tagged on the question, adds 1 to its correct only for a correct
\* answer, and sets its mastery_level to old * 0.9 + (100 * correct /
\* attempts) * 0.1 over the updated counters, a new skill starting from
\* zeros; every other skill entry is left as it was.
C24_SkillCounters ==
  [][\A p \in Procs :
       Updates(p) =>
         LET u == calls[p].user_id
             tags == Range(Questions[FindQuestion(calls[p].question_id)].skills)
             before == FindProgress(user_progress, u).skills
             after == FindProgress(user_progress', u).skills
         IN /\ \A t \in tags :
                 LET old == SkillEntry(before, t)
                     new == SkillEntry(after, t)
                 IN /\ SkillPos(after, t) # 0
                    /\ new.attempts = old.attempts + 1
                    /\ new.correct = old.correct
                         + (IF calls[p].result.is_correct THEN 1 ELSE 0)
                    /\ BlendOf(new.mastery_level, old.mastery_level,
                               new.correct, new.attempts)
            /\ \A i \in 1..Len(before) :
                 before[i].skill \notin tags =>
                   SkillEntry(after, before[i].skill) = before[i]
            /\ \A i \in 1..Len(after) :
                 after[i].skill \in tags
                   \/ SkillPos(before, after[i].skill) # 0]_vars

\* C24 witness: a skill with two attempts, one of them correct, next to a
\* skill with one failed attempt that the first submission did not touch.
C24_Witness ==
  \E u \in Users :
    LET skills == ProgressOf(u).skills
    IN /\ HasDoc(user_progress, u)
       /\ SkillEntry(skills, "add").attempts = 2
       /\ SkillEntry(skills, "add").correct = 1
       /\ SkillEntry(skills, "add").mastery_level > 0
       /\ SkillEntry(skills, "mul").attempts = 1
       /\ SkillEntry(skills, "mul").correct = 0

\* what stage 1 of the selector found for the request worker p answered
Stage1Of(p) ==
  LET progress == ProgressOf(calls[p].user_id)
  IN Stage1(WithWeakSkill(BuildQuery(calls[p].difficulty, calls[p].subject,
                                     calls[p].topic, progress),
                          progress),
            calls[p].count)

\* question q passes the filters of the request worker p answered
PassesFilters(p, q) ==
  /\ calls[p].difficulty # None => q.difficulty = calls[p].difficulty
  /\ calls[p].subject # None => q.subject = calls[p].subject
  /\ calls[p].topic # None => q.topic = calls[p].topic

\* the catalog questions that pass the filters of worker p's request and
\* that its user has not completed
Eligible(p) ==
  {i \in 1..Len(Questions) :
     /\ PassesFilters(p, Questions[i])
     /\ ~Contains(ProgressOf(calls[p].user_id).completed_questions,
                  Questions[i].id)}

\* C25: the list a request returns starts with the result of stage 1; when
\* the user's progress tracks a skill, every stage 1 question carries one
\* skill of lowest mastery_level among the tracked skills, passes the
\* requested filters and is not completed; when no skill is tracked, stage 1
\* is made of min(count, eligible) questions that pass the filters and are
\* not completed, with no further narrowing.
C25_StageOneWeakestSkill ==
  \A p \in Procs :
    Listed(p) =>
      LET skills == ProgressOf(calls[p].user_id).skills
          first == Stage1Of(p)
          ids == {Questions[i].id : i \in Eligible(p)}
      IN /\ Len(first) <= Len(calls[p].questions)
         /\ \A i \in 1..Len(first) : calls[p].questions[i].id = first[i].id
         /\ \A i \in 1..Len(first) : first[i].id \in ids
         /\ IF skills # <<>>
            THEN \E k \in 1..Len(skills) :
                   /\ \A j \in 1..Len(skills) :
                        skills[k].mastery_level <= skills[j].mastery_level
                   /\ \A i \in 1..Len(first) :
                        Contains(first[i].skills, skills[k].skill)
            ELSE Len(first) = IF calls[p].count < Cardinality(ids)
                              THEN calls[p].count ELSE Cardinality(ids)

\* C25 witness: a user tracks two skills of different mastery, stage 1 found
\* a question with the weaker one, fewer than count, and the later stages
\* added a question.
C25_Witness ==
  \E p \in Procs :
    LET skills == ProgressOf(calls[p].user_id).skills
    IN /\ Listed(p)
       /\ Len(skills) >= 2
       /\ \E j, k \in 1..Len(skills) :
            skills[j].mastery_level < skills[k].mastery_level
       /\ Stage1Of(p) # <<>>
       /\ Cardinality(Eligible(p)) > Len(Stage1Of(p))
       /\ Len(calls[p].questions) > Len(Stage1Of(p))

\* what stages 1 and 2 of the selector gathered for the request worker p
\* answered
EarlyOf(p) ==
  LET progress == ProgressOf(calls[p].user_id)
      query == WithWeakSkill(BuildQuery(calls[p].difficulty, calls[p].subject,
                                        calls[p].topic, progress),
                             progress)
  IN Stage2(Stage1(query, calls[p].count), query, calls[p].count)

\* the ids stage 3 may draw from: neither gathered by the earlier stages nor
\* completed by the user
Unchosen(p) ==
  {Questions[i].id : i \in 1..Len(Questions)}
    \ ({EarlyOf(p)[i].id : i \in 1..Len(EarlyOf(p))}
         \cup Range(ProgressOf(calls[p].user_id).completed_questions))

\* C26: when stages 1 and 2 gathered fewer than count questions, the
\* returned list is what they gathered followed by distinct questions that
\* were neither gathered nor completed, whatever the filters, as many as
\* there are slots left or such questions; the list is empty, and the
\* response 404, only if every catalog question is completed.
C26_StageThreeFills ==
  \A p \in Procs :
    Listed(p) =>
      LET early == EarlyOf(p)
          qs == calls[p].questions
          slots == calls[p].count - Len(early)
      IN /\ Len(early) < calls[p].count =>
              /\ Len(qs) = Len(early)
                   + (IF slots < Cardinality(Unchosen(p))
                      THEN slots ELSE Cardinality(Unchosen(p)))
              /\ \A i \in 1..Len(early) : qs[i].id = early[i].id
              /\ \A i \in (Len(early) + 1)..Len(qs) :
                   qs[i].id \in Unchosen(p)
              /\ \A i, j \in (Len(early) + 1)..Len(qs) :
                   qs[i].id = qs[j].id => i = j
         /\ (qs = <<>> \/ calls[p].status = 404) =>
              \A i \in 1..Len(Questions) :
                Contains(ProgressOf(calls[p].user_id).completed_questions,
                         Questions[i].id)

\* C26 witness: the earlier stages gathered fewer than count questions for
\* a user with a completed question, and stage 3 added a question that does
\* not pass the request's filters.
C26_Witness ==
  \E p \in Procs :
    /\ Listed(p)
    /\ ProgressOf(calls[p].user_id).completed_questions # <<>>
    /\ Len(EarlyOf(p)) < calls[p].count
    /\ \E i \in (Len(EarlyOf(p)) + 1)..Len(calls[p].questions) :
         ~PassesFilters(p, calls[p].questions[i])

\* worker p's step moves its submission from the step from to the step to
Moves(p, from, to) == calls[p].pc = from /\ calls'[p].pc = to

\* C27: a submission on an existing question starts at the insert of its
\* Answer Record; that step appends one record with the user id, question
\* id, raw answer, correctness flag, time taken and score of the submission,
\* correct or not; the read and the write of the progress update come only
\* after it; no other step changes the answer store, and no step changes or
\* removes a stored record.
C27_OneRecordAppended ==
  [][/\ \A p \in Procs :
          /\ Moves(p, "insert_answer", "find_progress") =>
               /\ user_answers' = Append(user_answers,
                    [user_id |-> calls[p].user_id,
                     question_id |-> calls[p].question_id,
                     user_answer |-> calls[p].user_answer,
                     is_correct |-> calls[p].result.is_correct,
                     time_taken |-> calls[p].time_taken,
                     score |-> calls[p].result.score])
               /\ user_progress' = user_progress
          /\ (calls'[p].pc = "insert_answer" /\ calls[p].pc # "insert_answer")
               => /\ calls[p] = Idle
                  /\ FindQuestion(calls'[p].question_id) # 0
          /\ (calls'[p].pc = "find_progress" /\ calls[p].pc # "find_progress")
               => calls[p].pc = "insert_answer"
          /\ (calls'[p].pc = "update_progress"
                /\ calls[p].pc # "update_progress")
               => calls[p].pc = "find_progress"
     /\ user_answers' # user_answers =>
          \E p \in Procs : Moves(p, "insert_answer", "find_progress")
     /\ Len(user_answers') >= Len(user_answers)
     /\ \A i \in 1..Len(user_answers) : user_answers'[i] = user_answers[i]]_vars

\* C27 witness: a user's correct and incorrect submissions are both on
\* record and the progress update of the last one has not been written yet.
C27_Witness ==
  \E p \in Procs :
    /\ AtStep(p, "update_progress")
    /\ \E i, j \in AnswersOf(calls[p].user_id) :
         user_answers[i].is_correct /\ ~user_answers[j].is_correct
    /\ ProgressOf(calls[p].user_id).total_attempts
         < Cardinality(AnswersOf(calls[p].user_id))

\* the quiz handlers that look up current_user["_id"]
QuizHandlers ==
  {"get_stack_of_questions", "submit_answer", "get_learning_progress"}

\* worker p holds the 500 response of a quiz handler to a request that was
\* well formed: the count was in range, the question exists
UserIdLookupFailed(p) ==
  /\ calls[p].op \in QuizHandlers
  /\ calls[p].pc = "done"
  /\ calls[p].status = 500
  /\ calls[p].op = "submit_answer" =>
       FindQuestion(calls[p].question_id) # 0

\* C28: no request with a valid credential ends in the 500 response that
\* the failed lookup of the user id produces in get_stack_of_questions,
\* submit_answer and get_learning_progress (the store does not fail here),
\* so that every such request works on the progress key of its credential.
C28_UserIdResolved ==
  \A p \in Procs : ~UserIdLookupFailed(p)

\* C29: when at least count catalog questions pass the request's
\* difficulty, subject and topic filters and are not completed by the user,
\* every question the selector returns passes those filters, whatever
\* skills the user's progress tracks.
C29_EnoughMatchesNoFallback ==
  \A p \in Procs :
    (Listed(p) /\ Cardinality(Eligible(p)) >= calls[p].count) =>
      \A i \in 1..Len(calls[p].questions) :
        PassesFilters(p, calls[p].questions[i])

\* C29 for a user whose progress tracks no skill
C29_NoSkillNoFallback ==
  \A p \in Procs :
    ( /\ Listed(p)
      /\ ProgressOf(calls[p].user_id).skills = <<>>
      /\ Cardinality(Eligible(p)) >= calls[p].count ) =>
      \A i \in 1..Len(calls[p].questions) :
        PassesFilters(p, calls[p].questions[i])

\* no submission stands between the insert of its Answer Record and the
\* write of its progress update
NoUpdatePending ==
  \A p \in Procs : calls[p].pc \notin {"find_progress", "update_progress"}

\* C30: in every reachable state in which no submission stands between its
\* answer insert and its progress write, also after a failure of the
\* progress store in the middle of a submission, the number of Answer
\* Records stored for a user equals that user's total_attempts.
C30_RecordsMatchAttempts ==
  NoUpdatePending =>
    \A u \in AllUsers :
      Cardinality(AnswersOf(u)) = ProgressOf(u).total_attempts

\* C31: the id recommend_next_question returns, after a correct answer,
\* after an incorrect answer and from the fallback query alike, is None or
\* the id of a question that is neither the one just answered nor in the
\* user's completed_questions.
C31_NextIsFresh ==
  \A p \in Procs :
    Recommended(p) =>
      \/ calls[p].next_question_id = None
      \/ /\ calls[p].next_question_id # calls[p].current_question_id
         /\ ~Contains(ProgressOf(calls[p].user_id).completed_questions,
                      calls[p].next_question_id)

\* C31 for the calls that follow a correct answer
C31_NextIsFreshAfterCorrect ==
  \A p \in Procs :
    Recommended(p) /\ calls[p].result.is_correct =>
      \/ calls[p].next_question_id = None
      \/ /\ calls[p].next_question_id # calls[p].current_question_id
         /\ ~Contains(ProgressOf(calls[p].user_id).completed_questions,
                      calls[p].next_question_id)

\* worker p takes a request op in this step
Takes(p, op) == Free(p) /\ calls'[p].op = op

\* worker p's step ends a request op with the 400 response
Refuses(p, op) ==
  /\ calls'[p] # calls[p]
  /\ calls'[p].op = op
  /\ calls'[p].pc = "done"
  /\ calls'[p].status = 400

\* C32: the password of a user changes only in the update of a
\* reset-password request whose code is the code stored for the user at
\* that moment, the one forgot-password stored last, and was presented
\* before its expiry; that update removes the code and the expiry; while a
\* user has no code, verify-code and reset-password are refused whatever
\* code they present; and a refused verify-code or reset-password, like
\* every verify-code, leaves the users collection as it was.
C32_CodeSingleUse ==
  [][/\ \A i \in 1..Len(users_collection) :
          users_collection'[i].password # users_collection[i].password =>
            \E p \in Procs :
              /\ calls[p].op = "reset_password"
              /\ Moves(p, "set_password", "done")
              /\ calls[p].email = users_collection[i].email
              /\ users_collection[i].has_code
              /\ users_collection[i].verification_code = calls[p].code
              /\ calls[p].utcnow <= users_collection[i].code_expiry
     /\ \A p \in Procs :
          /\ (calls[p].op = "reset_password"
                /\ Moves(p, "set_password", "done")) =>
               LET i == FindUser(users_collection', calls[p].email)
               IN i # 0 => ~users_collection'[i].has_code
          /\ \A op \in {"verify_code", "reset_password"} :
               /\ Takes(p, op) =>
                    LET i == FindUser(users_collection, calls'[p].email)
                    IN (i = 0 \/ ~users_collection[i].has_code) =>
                         Refuses(p, op)
               /\ Refuses(p, op) => users_collection' = users_collection
          /\ Takes(p, "verify_code") =>
               users_collection' = users_collection]_vars

\* an admin has set the user's is_active to false and not back to true
Deactivated(user) == user.has_is_active /\ ~user.is_active

\* C33: while a user's is_active is false, a login for that user gets no
\* access token, and gets 403 when the password is right, and a register
\* with that email is refused with the users collection left as it was;
\* is_active changes only in the update of an admin's status request, to
\* the value that request gives; and a login with the right password for a
\* user who is not deactivated gets a token for that user.
C33_DeactivatedCannotLogin ==
  [][/\ \A p \in Procs :
          /\ Takes(p, "login") =>
               LET i == FindUser(users_collection, calls'[p].username)
                   right == verify_password(calls'[p].password,
                                            users_collection[i].password)
               IN i # 0 =>
                    IF Deactivated(users_collection[i])
                    THEN /\ "access_token" \notin DOMAIN calls'[p]
                         /\ calls'[p].status # 200
                         /\ right => calls'[p].status = 403
                    ELSE right =>
                           /\ calls'[p].status = 200
                           /\ calls'[p].access_token.sub
                                = users_collection[i].email
          /\ Takes(p, "register") =>
               LET i == FindUser(users_collection, calls'[p].email)
               IN (i # 0 /\ Deactivated(users_collection[i])) =>
                    /\ Refuses(p, "register")
                    /\ users_collection' = users_collection
     /\ \A i \in 1..Len(users_collection) :
          Deactivated(users_collection'[i])
            # Deactivated(users_collection[i]) =>
              \E p \in Procs :
                /\ calls[p].op = "update_user_status"
                /\ Moves(p, "set_status", "done")
                /\ users_collection'[i].is_active = calls[p].activate]_vars

\* C33 witness: a login with the right password was answered 403 while the
\* user was deactivated, and after the reactivation another login with the
\* same password got a token.
C33_Witness ==
  \E p, q \in Procs :
    LET i == FindUser(users_collection, calls[p].username)
    IN /\ calls[p].op = "login" /\ calls[p].status = 403
       /\ calls[q].op = "login" /\ calls[q].status = 200
       /\ calls[q].username = calls[p].username
       /\ calls[q].password = calls[p].password
       /\ i # 0
       /\ users_collection[i].has_reason
       /\ users_collection[i].has_is_active
       /\ users_collection[i].is_active

====
